---- MODULE Spec2Model ----
(***************************************************************************)
(* The g-code parser of grbl (motion only): gc_init, gc_sync_position and  *)
(* gc_execute_line of src/grbl/gcode.c, with the collaborators the parser  *)
(* calls (settings store, planner entry points, realtime executor) as far  *)
(* as the parser observes them.                                            *)
(*                                                                         *)
(* Numbers.  Every float of the source is a fixed-point integer here, in   *)
(* hundredths: the word X1.5 carries v = 150, G38.2 carries v = 3820.      *)
(* Float rounding is not modelled.                                         *)
(***************************************************************************)
EXTENDS Integers, Sequences, FiniteSets, TLC

\* Hundredths per unit: the mantissa of a command word is round(100*frac).
Scale == 100

\* ----------------------------------------------------------------- axes
N_AXIS == 2
X_AXIS == 0
Y_AXIS == 1
Axes == 0 .. (N_AXIS - 1)
\* A vector of the source (float[N_AXIS]) is a function on Axes.
Vec(x, y) == [i \in Axes |-> IF i = X_AXIS THEN x ELSE y]
ZeroVec == [i \in Axes |-> 0]

\* ----------------------------------------------------------------- gcode.c defines
MAX_LINE_NUMBER == 10000000
AXIS_COMMAND_NONE == 0
AXIS_COMMAND_NON_MODAL == 1
AXIS_COMMAND_MOTION_MODE == 2

\* ----------------------------------------------------------------- gcode.h values
\* The numeric value of each mode is the one the parser computes from the
\* command word (gc_block.modal.motion = int_value, distance = int_value - 90,
\* feed_rate = 94 - int_value, units = 21 - int_value, coord_select =
\* int_value - 54, program_flow = int_value).
MOTION_MODE_SEEK == 0
MOTION_MODE_LINEAR == 1
MOTION_MODE_CW_ARC == 2
MOTION_MODE_CCW_ARC == 3
MOTION_MODE_NONE == 80
MOTION_MODE_PROBE_TOWARD == 140
FEED_RATE_MODE_UNITS_PER_MIN == 0
FEED_RATE_MODE_INVERSE_TIME == 1
DISTANCE_MODE_ABSOLUTE == 0
DISTANCE_MODE_INCREMENTAL == 1
UNITS_MODE_MM == 0
UNITS_MODE_INCHES == 1
PROGRAM_FLOW_RUNNING == 0
PROGRAM_FLOW_PAUSED == 3
PROGRAM_FLOW_COMPLETED_M2 == 2
PROGRAM_FLOW_COMPLETED_M30 == 30
NON_MODAL_NO_ACTION == 0
NON_MODAL_DWELL == 4
NON_MODAL_SET_COORDINATE_DATA == 10
NON_MODAL_ABSOLUTE_OVERRIDE == 53
\* Number of stored coordinate systems G54..G59.
N_COORDINATE_SYSTEM == 6

\* system.h / config.h
STATE_IDLE == 0
STATE_CHECK_MODE == 2
DEFAULT_FEED_OVERRIDE == 100
DEFAULT_RAPID_OVERRIDE == 100

\* ----------------------------------------------------------------- words
\* One g-code word: a letter and its value (hundredths); num = FALSE is a
\* letter not followed by a readable number.
W(l, v) == [l |-> l, v |-> v, num |-> TRUE]
NoNum(l) == [l |-> l, v |-> 0, num |-> FALSE]
\* A line: the words after the optional `$J=` prefix.
Block(ws) == [jog |-> FALSE, words |-> ws]
Jog(ws) == [jog |-> TRUE, words |-> ws]

UpperCase == {"A","B","C","D","E","F","G","H","I","J","K","L","M","N","O","P",
              "Q","R","S","T","U","V","W","X","Y","Z"}

\* int_value = trunc(value), stored in a uint8_t.
IntValue8(v) == (v \div Scale) % 256
\* mantissa = round(100*(value - int_value)), stored in a uint16_t.
Mantissa16(v) == (v - Scale * IntValue8(v)) % 65536
\* trunc(value) for a value that is not negative.
Trunc(v) == v \div Scale

\* ----------------------------------------------------------------- parser block
\* gc_block after memset and the copy of the modal state (STEP 1), with the
\* locals of gc_execute_line that track the block.
BlockInit(gs, line) ==
  [ status |-> "OK",
    jog |-> line.jog,
    modal |-> IF line.jog
              THEN [gs.modal EXCEPT !.motion = MOTION_MODE_LINEAR,
                                    !.feed_rate = FEED_RATE_MODE_UNITS_PER_MIN]
              ELSE gs.modal,
    non_modal_command |-> NON_MODAL_NO_ACTION,
    f |-> 0, ijk |-> ZeroVec, l |-> 0, n |-> 0, p |-> 0, r |-> 0, xyz |-> ZeroVec,
    axis_command |-> AXIS_COMMAND_NONE,
    axis_words |-> {},
    ijk_words |-> {},
    command_words |-> {},
    value_words |-> {},
    coord_select |-> 0,
    block_coord_system |-> gs.coord_system,
    arc_is_clockwise |-> FALSE,
    eeprom_read |-> FALSE ]

Fail(b, s) == [b EXCEPT !.status = s]

\* CheckGroup without the test of the bit already set.
CheckGroup_NoCheck(b, word_bit) == [b EXCEPT !.command_words = @ \cup {word_bit}]

\* The modal-group check that closes the 'G' and the 'M' case.
CheckGroup(b, word_bit) ==
  IF word_bit \in b.command_words
  THEN Fail(b, "GCODE_MODAL_GROUP_VIOLATION")
  ELSE [b EXCEPT !.command_words = @ \cup {word_bit}]

\* GTail without the test of the mantissa left over.
GTail_AnyMantissa(b, word_bit, mantissa) == CheckGroup(b, word_bit)

\* Tail of the 'G' case: the mantissa left over, then the modal group.
GTail(b, word_bit, mantissa) ==
  IF mantissa > 0 THEN Fail(b, "GCODE_COMMAND_VALUE_NOT_INTEGER")
  ELSE CheckGroup(b, word_bit)

\* case 4: case 53: (and the fall-through of 10, 28, 30, 92)
GNonModal(b, int_value, mantissa) ==
  IF int_value \in {28, 30, 92}
  THEN IF ~(mantissa \in {0, 10}) THEN Fail(b, "GCODE_UNSUPPORTED_COMMAND")
       ELSE GTail([b EXCEPT !.non_modal_command = (int_value + mantissa) % 256],
                  "MODAL_GROUP_G0", 0)
  ELSE GTail([b EXCEPT !.non_modal_command = int_value], "MODAL_GROUP_G0", mantissa)

\* GMotion storing the probe cycles as their integer part plus the tenths of
\* the mantissa, without the offset that sets them apart from the other codes.
GMotion_ProbeCodeRaw(b, int_value, mantissa) ==
  IF int_value = 38
  THEN IF ~(mantissa \in {20, 30, 40, 50}) THEN Fail(b, "GCODE_UNSUPPORTED_COMMAND")
       ELSE GTail([b EXCEPT !.modal.motion = 38 + (mantissa \div 10)],
                  "MODAL_GROUP_G1", 0)
  ELSE GTail([b EXCEPT !.modal.motion = int_value], "MODAL_GROUP_G1", mantissa)

\* case 80: (and the fall-through of 0, 1, 2, 3, 38)
GMotion(b, int_value, mantissa) ==
  IF int_value = 38
  THEN IF ~(mantissa \in {20, 30, 40, 50}) THEN Fail(b, "GCODE_UNSUPPORTED_COMMAND")
       ELSE GTail([b EXCEPT !.modal.motion = 38 + (mantissa \div 10) + 100],
                  "MODAL_GROUP_G1", 0)
  ELSE GTail([b EXCEPT !.modal.motion = int_value], "MODAL_GROUP_G1", mantissa)

\* AxisCommandConflict that never sees a conflict.
AxisCommandConflict_Never(b) == FALSE

\* if (axis_command): an axis command has already been seen in the block.
AxisCommandConflict(b) == b.axis_command # AXIS_COMMAND_NONE

\* default: of the three switches over the command letter and code.
UnsupportedCommand_Ignored(b) == b
UnsupportedCommand(b) == Fail(b, "GCODE_UNSUPPORTED_COMMAND")

\* case 'G':
ImportG(b, int_value, mantissa) ==
  CASE int_value \in {10, 28, 30, 92} ->
         IF mantissa = 0
         THEN IF AxisCommandConflict(b)
              THEN Fail(b, "GCODE_AXIS_COMMAND_CONFLICT")
              ELSE GNonModal([b EXCEPT !.axis_command = AXIS_COMMAND_NON_MODAL],
                             int_value, mantissa)
         ELSE GNonModal(b, int_value, mantissa)
    [] int_value \in {4, 53} -> GNonModal(b, int_value, mantissa)
    [] int_value \in {0, 1, 2, 3, 38} ->
         IF AxisCommandConflict(b)
         THEN Fail(b, "GCODE_AXIS_COMMAND_CONFLICT")
         ELSE GMotion([b EXCEPT !.axis_command = AXIS_COMMAND_MOTION_MODE],
                      int_value, mantissa)
    [] int_value = 80 -> GMotion(b, int_value, mantissa)
    [] int_value \in {90, 91} ->
         IF mantissa = 0
         THEN GTail([b EXCEPT !.modal.distance = int_value - 90], "MODAL_GROUP_G3", mantissa)
         ELSE IF (mantissa # 10) \/ (int_value = 90)
              THEN Fail(b, "GCODE_UNSUPPORTED_COMMAND")
              ELSE GTail(b, "MODAL_GROUP_G4", 0)
    [] int_value \in {93, 94} ->
         GTail([b EXCEPT !.modal.feed_rate = 94 - int_value], "MODAL_GROUP_G5", mantissa)
    [] int_value \in {20, 21} ->
         GTail([b EXCEPT !.modal.units = 21 - int_value], "MODAL_GROUP_G6", mantissa)
    [] int_value = 40 -> GTail(b, "MODAL_GROUP_G7", mantissa)
    [] int_value \in 54 .. 59 ->
         GTail([b EXCEPT !.modal.coord_select = int_value - 54], "MODAL_GROUP_G12", mantissa)
    [] int_value = 61 ->
         IF mantissa # 0 THEN Fail(b, "GCODE_UNSUPPORTED_COMMAND")
         ELSE GTail(b, "MODAL_GROUP_G13", mantissa)
    [] OTHER -> UnsupportedCommand(b)

\* case 'M':
ImportM(b, int_value, mantissa) ==
  IF mantissa > 0 THEN Fail(b, "GCODE_COMMAND_VALUE_NOT_INTEGER")
  ELSE CASE int_value = 0 ->
              CheckGroup([b EXCEPT !.modal.program_flow = PROGRAM_FLOW_PAUSED], "MODAL_GROUP_M4")
         [] int_value = 1 -> CheckGroup(b, "MODAL_GROUP_M4")
         [] int_value \in {2, 30} ->
              CheckGroup([b EXCEPT !.modal.program_flow = int_value], "MODAL_GROUP_M4")
         [] OTHER -> UnsupportedCommand(b)

\* Tail of the value-word case: repeated word, negative value, flag the word.
ValueTail(b, word_bit, v) ==
  IF word_bit \in b.value_words THEN Fail(b, "GCODE_WORD_REPEATED")
  ELSE IF word_bit \in {"WORD_F", "WORD_N", "WORD_P", "WORD_S"} /\ v < 0
       THEN Fail(b, "NEGATIVE_VALUE")
       ELSE [b EXCEPT !.value_words = @ \cup {word_bit}]

\* default: the value words.
ImportValue(b, letter, v) ==
  CASE letter = "F" -> ValueTail([b EXCEPT !.f = v], "WORD_F", v)
    [] letter = "I" -> ValueTail([b EXCEPT !.ijk[X_AXIS] = v,
                                           !.ijk_words = @ \cup {X_AXIS}], "WORD_I", v)
    [] letter = "J" -> ValueTail([b EXCEPT !.ijk[Y_AXIS] = v,
                                           !.ijk_words = @ \cup {Y_AXIS}], "WORD_J", v)
    [] letter = "L" -> ValueTail([b EXCEPT !.l = IntValue8(v)], "WORD_L", v)
    [] letter = "N" -> ValueTail([b EXCEPT !.n = Trunc(v)], "WORD_N", v)
    [] letter = "P" -> ValueTail([b EXCEPT !.p = v], "WORD_P", v)
    [] letter = "R" -> ValueTail([b EXCEPT !.r = v], "WORD_R", v)
    [] letter = "X" -> ValueTail([b EXCEPT !.xyz[X_AXIS] = v,
                                           !.axis_words = @ \cup {X_AXIS}], "WORD_X", v)
    [] letter = "Y" -> ValueTail([b EXCEPT !.xyz[Y_AXIS] = v,
                                           !.axis_words = @ \cup {Y_AXIS}], "WORD_Y", v)
    [] OTHER -> UnsupportedCommand(b)

\* One turn of the STEP 2 loop: import one word.
ImportWord(b, w) ==
  IF ~(w.l \in UpperCase) THEN Fail(b, "EXPECTED_COMMAND_LETTER")
  ELSE IF ~w.num THEN Fail(b, "BAD_NUMBER_FORMAT")
  ELSE CASE w.l = "G" -> ImportG(b, IntValue8(w.v), Mantissa16(w.v))
         [] w.l = "M" -> ImportM(b, IntValue8(w.v), Mantissa16(w.v))
         [] OTHER -> ImportValue(b, w.l, w.v)

\* STEP 2: all the words of the line, stopping at the first failure.
RECURSIVE ImportWords(_, _, _)
ImportWords(b, words, i) ==
  IF i > Len(words) \/ b.status # "OK" THEN b
  ELSE ImportWords(ImportWord(b, words[i]), words, i + 1)

\* ----------------------------------------------------------------- settings store
\* The store keeps one offset vector per coordinate system; bad is the set of
\* systems whose stored checksum does not match, for which a read fails.
settings_read_ok(ee, idx) == ~(idx \in ee.bad)
\* What settings_read_coord_data leaves in the destination.
settings_read_coord_data(ee, idx) == IF idx \in ee.bad THEN ZeroVec ELSE ee.coord[idx]
settings_write_coord_data(ee, idx, data) ==
  [coord |-> [ee.coord EXCEPT ![idx] = data], bad |-> ee.bad \ {idx}]

\* ----------------------------------------------------------------- arithmetic
Abs(x) == IF x < 0 THEN -x ELSE x
Sq(x) == x * x
RECURSIVE ISqrtIn(_, _, _)
\* The r with lo <= r < hi and r*r <= n < (r+1)*(r+1), by bisection.
ISqrtIn(n, lo, hi) ==
  IF hi - lo <= 1 THEN lo
  ELSE LET mid == (lo + hi) \div 2
       IN IF Sq(mid) <= n THEN ISqrtIn(n, mid, hi) ELSE ISqrtIn(n, lo, mid)
\* floor(sqrt(n)), for n below 2^30.
ISqrt(n) == IF n <= 0 THEN 0 ELSE ISqrtIn(n, 0, 32768)

\* ----------------------------------------------------------------- STEP 3
\* Each check of STEP 3 takes the block and returns it, failed or updated;
\* a block that has failed passes through the later checks unchanged.

\* [0] implicit axis command, line number.
Check0(b) ==
  IF b.status # "OK" THEN b
  ELSE LET b1 == IF b.axis_words # {} /\ b.axis_command = AXIS_COMMAND_NONE
                 THEN [b EXCEPT !.axis_command = AXIS_COMMAND_MOTION_MODE]
                 ELSE b
       IN IF "WORD_N" \in b1.value_words /\ b1.n > MAX_LINE_NUMBER
          THEN Fail(b1, "GCODE_INVALID_LINE_NUMBER")
          ELSE b1

\* CheckFeed with the feed rate carried over in inverse time mode as it is in
\* units-per-minute mode: the fault that would let G93 retain F.
CheckFeed_Retained(b, gs) ==
  IF b.status # "OK" THEN b
  ELSE IF b.jog
  THEN IF ~("WORD_F" \in b.value_words) THEN Fail(b, "GCODE_UNDEFINED_FEED_RATE") ELSE b
  ELSE IF ~("WORD_F" \in b.value_words) THEN [b EXCEPT !.f = gs.feed_rate]
  ELSE b

\* CheckFeed with a jog that has no F word taking the feed rate of gc_state.
CheckFeed_JogRetained(b, gs) ==
  IF b.status # "OK" THEN b
  ELSE IF b.jog
  THEN IF ~("WORD_F" \in b.value_words) THEN [b EXCEPT !.f = gs.feed_rate] ELSE b
  ELSE IF b.modal.feed_rate = FEED_RATE_MODE_INVERSE_TIME
  THEN IF /\ b.axis_command = AXIS_COMMAND_MOTION_MODE
          /\ b.modal.motion # MOTION_MODE_NONE
          /\ b.modal.motion # MOTION_MODE_SEEK
          /\ ~("WORD_F" \in b.value_words)
       THEN Fail(b, "GCODE_UNDEFINED_FEED_RATE")
       ELSE b
  ELSE IF gs.modal.feed_rate = FEED_RATE_MODE_UNITS_PER_MIN /\ ~("WORD_F" \in b.value_words)
       THEN [b EXCEPT !.f = gs.feed_rate]
       ELSE b

\* [2. Set feed rate mode] [3. Set feed rate]
CheckFeed(b, gs) ==
  IF b.status # "OK" THEN b
  ELSE IF b.jog
  THEN IF ~("WORD_F" \in b.value_words) THEN Fail(b, "GCODE_UNDEFINED_FEED_RATE") ELSE b
  ELSE IF b.modal.feed_rate = FEED_RATE_MODE_INVERSE_TIME
  THEN IF /\ b.axis_command = AXIS_COMMAND_MOTION_MODE
          /\ b.modal.motion # MOTION_MODE_NONE
          /\ b.modal.motion # MOTION_MODE_SEEK
          /\ ~("WORD_F" \in b.value_words)
       THEN Fail(b, "GCODE_UNDEFINED_FEED_RATE")
       ELSE b
  ELSE IF gs.modal.feed_rate = FEED_RATE_MODE_UNITS_PER_MIN /\ ~("WORD_F" \in b.value_words)
       THEN [b EXCEPT !.f = gs.feed_rate]
       ELSE b

\* [10. Dwell]
CheckDwell(b) ==
  IF b.status # "OK" THEN b
  ELSE IF b.non_modal_command = NON_MODAL_DWELL
  THEN IF ~("WORD_P" \in b.value_words) THEN Fail(b, "GCODE_VALUE_WORD_MISSING")
       ELSE [b EXCEPT !.value_words = @ \ {"WORD_P"}]
  ELSE b

\* [15. Coordinate system selection]
CheckCoordSelect(b, gs, ee) ==
  IF b.status # "OK" THEN b
  ELSE IF "MODAL_GROUP_G12" \in b.command_words
  THEN IF b.modal.coord_select > N_COORDINATE_SYSTEM
       THEN Fail(b, "GCODE_UNSUPPORTED_COORD_SYS")
       ELSE IF gs.modal.coord_select # b.modal.coord_select
       THEN IF ~settings_read_ok(ee, b.modal.coord_select)
            THEN Fail([b EXCEPT !.eeprom_read = TRUE], "SETTING_READ_FAIL")
            ELSE [b EXCEPT !.eeprom_read = TRUE,
                           !.block_coord_system =
                              settings_read_coord_data(ee, b.modal.coord_select)]
       ELSE b
  ELSE b

\* [19] case NON_MODAL_SET_COORDINATE_DATA: G10 L2 / L20.
CheckG10(b, gs, ee) ==
  IF b.axis_words = {} THEN Fail(b, "GCODE_NO_AXIS_WORDS")
  ELSE IF b.value_words \cap {"WORD_P", "WORD_L"} = {} THEN Fail(b, "GCODE_VALUE_WORD_MISSING")
  ELSE LET cs0 == Trunc(b.p) % 256 IN
       IF cs0 > N_COORDINATE_SYSTEM THEN Fail(b, "GCODE_UNSUPPORTED_COORD_SYS")
       ELSE IF b.l # 20 /\ b.l = 2 /\ "WORD_R" \in b.value_words
       THEN Fail(b, "GCODE_UNSUPPORTED_COMMAND")
       ELSE IF b.l # 20 /\ b.l # 2 THEN Fail(b, "GCODE_UNSUPPORTED_COMMAND")
       ELSE LET cs == IF cs0 > 0 THEN cs0 - 1 ELSE b.modal.coord_select
                b1 == [b EXCEPT !.value_words = @ \ {"WORD_L", "WORD_P"},
                                !.coord_select = cs,
                                !.eeprom_read = TRUE]
            IN IF ~settings_read_ok(ee, cs) THEN Fail(b1, "SETTING_READ_FAIL")
               ELSE LET stored == settings_read_coord_data(ee, cs) IN
                    [b1 EXCEPT !.ijk =
                       [idx \in Axes |->
                          IF idx \in b.axis_words
                          THEN IF b.l = 20
                               THEN gs.position[idx] - gs.coord_offset[idx] - b.xyz[idx]
                               ELSE b.xyz[idx]
                          ELSE stored[idx]]]

\* TargetOf with every axis value taken as absolute.
TargetOf_Absolute(b, gs) ==
  [idx \in Axes |->
     IF ~(idx \in b.axis_words) THEN gs.position[idx]
     ELSE IF b.non_modal_command # NON_MODAL_ABSOLUTE_OVERRIDE
     THEN b.xyz[idx] + b.block_coord_system[idx] + gs.coord_offset[idx]
     ELSE b.xyz[idx]]

\* [19] default: the target of the axis words, then the G53 check.
TargetOf(b, gs) ==
  [idx \in Axes |->
     IF ~(idx \in b.axis_words) THEN gs.position[idx]
     ELSE IF b.non_modal_command # NON_MODAL_ABSOLUTE_OVERRIDE
     THEN IF b.modal.distance = DISTANCE_MODE_ABSOLUTE
          THEN b.xyz[idx] + b.block_coord_system[idx] + gs.coord_offset[idx]
          ELSE b.xyz[idx] + gs.position[idx]
     ELSE b.xyz[idx]]

CheckNonModal(b, gs, ee) ==
  IF b.status # "OK" THEN b
  ELSE IF b.non_modal_command = NON_MODAL_SET_COORDINATE_DATA THEN CheckG10(b, gs, ee)
  ELSE LET b1 == IF b.axis_words # {} THEN [b EXCEPT !.xyz = TargetOf(b, gs)] ELSE b IN
       IF /\ b1.non_modal_command = NON_MODAL_ABSOLUTE_OVERRIDE
          /\ ~(b1.modal.motion \in {MOTION_MODE_SEEK, MOTION_MODE_LINEAR})
       THEN Fail(b1, "GCODE_G53_INVALID_MOTION_MODE")
       ELSE b1

\* ----------------------------------------------------------------- arcs
\* axis_0, axis_1 and axis_linear are locals of gc_execute_line that no path
\* assigns.  Their values are whatever the build leaves there: ub.axis_0 and
\* ub.axis_1 range over the axis indices and one index outside the axis
\* arrays (N_AXIS); a read of an array at the outside index yields
\* ub.garbage, a write there is lost.
RdVec(vec, idx, ub) == IF idx \in Axes THEN vec[idx] ELSE ub.garbage
WrVec(vec, idx, val) == IF idx \in Axes THEN [vec EXCEPT ![idx] = val] ELSE vec

\* isequal_position_vector
isequal_position_vector(a, c) == \A idx \in Axes : a[idx] = c[idx]

\* lhs > c * sqrt(n) for c > 0 and n >= 0, exactly and without squaring lhs:
\* with s the integer root of n, the answer is plain outside
\* c*s < lhs < c*(s+1); inside, lhs = c*s + k is squared term by term.
ExceedsScaledRoot(lhs, c, n) ==
  LET s == ISqrt(n)
      k == lhs - c * s
  IN IF lhs >= c * (s + 1) THEN TRUE
     ELSE IF lhs <= c * s THEN FALSE
     ELSE 2 * c * s * k + k * k > c * c * (n - s * s)

\* |sqrt(hi2) - sqrt(lo2)| > t/2 hundredths, for squares hi2 >= lo2 (exact).
RootsDifferByMoreThanHalf(hi2, lo2, t) ==
  \* sqrt(hi2) > sqrt(lo2) + t/2  <=>  4(hi2-lo2) - t*t > 4 t sqrt(lo2)
  ExceedsScaledRoot(4 * (hi2 - lo2) - t * t, 4 * t, lo2)

\* delta_r > 0.005, delta_r > 0.5, delta_r > 0.001 * r of the offset-mode
\* check, on the squares target_r^2 and r^2 (in squared hundredths).
ArcDeltaAbove005(t2, r2) ==
  IF t2 >= r2 THEN RootsDifferByMoreThanHalf(t2, r2, 1)
  ELSE RootsDifferByMoreThanHalf(r2, t2, 1)
ArcDeltaAbove05(t2, r2) ==
  \* |sqrt(t2) - sqrt(r2)| > 50 hundredths
  LET hi2 == IF t2 >= r2 THEN t2 ELSE r2
      lo2 == IF t2 >= r2 THEN r2 ELSE t2
  IN ExceedsScaledRoot(hi2 - lo2 - 2500, 100, lo2)
ArcDeltaAbovePermille(t2, r2) ==
  \* |sqrt(t2) - sqrt(r2)| > 0.001 * sqrt(r2)
  \*   <=>  1000000 * |t2 - r2| > (2001 or 1999) * r2, taken in two parts
  LET a == r2 \div 1000000
      b == r2 % 1000000
  IN IF t2 >= r2
     THEN (t2 - r2) > 2001 * a + (2001 * b) \div 1000000
     ELSE (r2 - t2) > 1999 * a + (1999 * b) \div 1000000

\* [G2/3] radius mode: the centre offsets from R.
ArcRadiusMode(b, gs, ub, x, y) ==
  LET b1 == [b EXCEPT !.value_words = @ \ {"WORD_R"}]
      h2 == 4 * Sq(b.r) - Sq(x) - Sq(y)
  IN IF isequal_position_vector(gs.position, b.xyz) THEN Fail(b1, "GCODE_INVALID_TARGET")
     ELSE IF h2 < 0 THEN Fail(b1, "GCODE_ARC_RADIUS_ERROR")
     ELSE LET d == ISqrt(Sq(x) + Sq(y))
              \* |h_x2_div_d| = sqrt(h2)/d, kept as the pair (ISqrt(h2), d)
              sgn0 == -1
              sgn1 == IF b.modal.motion = MOTION_MODE_CCW_ARC THEN -sgn0 ELSE sgn0
              sgn2 == IF b.r < 0 THEN -sgn1 ELSE sgn1
              hn == sgn2 * ISqrt(h2)
              \* y * h_x2_div_d and x * h_x2_div_d; a zero chord in the
              \* (garbage) plane divides by zero: the offsets are then garbage.
              yh == IF d = 0 THEN ub.garbage ELSE (y * hn) \div d
              xh == IF d = 0 THEN ub.garbage ELSE (x * hn) \div d
              i0 == (x - yh) \div 2
              j1 == (y + xh) \div 2
          IN [b1 EXCEPT !.r = Abs(b.r),
                        !.ijk = WrVec(WrVec(b.ijk, ub.axis_0, i0), ub.axis_1, j1)]

\* [G2/3] offset mode: the radius from I/J/K and the check of the target.
ArcOffsetMode(b, gs, ub, x0, y0) ==
  LET b1 == [b EXCEPT !.value_words = @ \ {"WORD_I", "WORD_J", "WORD_K"}]
      x == x0 - RdVec(b.ijk, ub.axis_0, ub)
      y == y0 - RdVec(b.ijk, ub.axis_1, ub)
      t2 == Sq(x) + Sq(y)
      r2 == Sq(RdVec(b.ijk, ub.axis_0, ub)) + Sq(RdVec(b.ijk, ub.axis_1, ub))
  IN IF ArcDeltaAbove005(t2, r2) /\ (ArcDeltaAbove05(t2, r2) \/ ArcDeltaAbovePermille(t2, r2))
     THEN Fail(b1, "GCODE_INVALID_TARGET")
     ELSE [b1 EXCEPT !.r = ISqrt(r2)]

\* case MOTION_MODE_CW_ARC: case MOTION_MODE_CCW_ARC:
CheckArc(b, gs, ub) ==
  LET b1 == IF b.modal.motion = MOTION_MODE_CW_ARC
            THEN [b EXCEPT !.arc_is_clockwise = TRUE] ELSE b
  IN IF b1.axis_words = {} THEN Fail(b1, "GCODE_NO_AXIS_WORDS")
     ELSE IF b1.axis_words \cap {ub.axis_0, ub.axis_1} = {}
     THEN Fail(b1, "GCODE_NO_AXIS_WORDS_IN_PLANE")
     ELSE LET x == RdVec(b1.xyz, ub.axis_0, ub) - RdVec(gs.position, ub.axis_0, ub)
              y == RdVec(b1.xyz, ub.axis_1, ub) - RdVec(gs.position, ub.axis_1, ub)
          IN IF "WORD_R" \in b1.value_words
             THEN ArcRadiusMode(b1, gs, ub, x, y)
             ELSE ArcOffsetMode(b1, gs, ub, x, y)

\* CheckMotion without the test of a zero feed rate.
CheckMotion_NoFeedCheck(b, gs, ub) ==
  IF b.status # "OK" THEN b
  ELSE IF b.modal.motion = MOTION_MODE_NONE
  THEN IF b.axis_words # {} THEN Fail(b, "GCODE_AXIS_WORDS_EXIST") ELSE b
  ELSE IF b.axis_command = AXIS_COMMAND_MOTION_MODE
  THEN IF b.modal.motion \in {MOTION_MODE_SEEK, MOTION_MODE_LINEAR}
       THEN IF b.axis_words = {} THEN [b EXCEPT !.axis_command = AXIS_COMMAND_NONE] ELSE b
       ELSE IF b.modal.motion \in {MOTION_MODE_CW_ARC, MOTION_MODE_CCW_ARC}
       THEN CheckArc(b, gs, ub)
       ELSE b
  ELSE b

\* CheckMotion without the G80 test of the axis words.
CheckMotion_AxisWordsUnderG80(b, gs, ub) ==
  IF b.status # "OK" THEN b
  ELSE IF b.modal.motion = MOTION_MODE_NONE
  THEN b
  ELSE IF b.axis_command = AXIS_COMMAND_MOTION_MODE
  THEN IF b.modal.motion = MOTION_MODE_SEEK
       THEN IF b.axis_words = {} THEN [b EXCEPT !.axis_command = AXIS_COMMAND_NONE] ELSE b
       ELSE IF b.f = 0 THEN Fail(b, "GCODE_UNDEFINED_FEED_RATE")
       ELSE IF b.modal.motion = MOTION_MODE_LINEAR
       THEN IF b.axis_words = {} THEN [b EXCEPT !.axis_command = AXIS_COMMAND_NONE] ELSE b
       ELSE IF b.modal.motion \in {MOTION_MODE_CW_ARC, MOTION_MODE_CCW_ARC}
       THEN CheckArc(b, gs, ub)
       ELSE b
  ELSE b
\* [20. Motion modes]
CheckMotion(b, gs, ub) ==
  IF b.status # "OK" THEN b
  ELSE IF b.modal.motion = MOTION_MODE_NONE
  THEN IF b.axis_words # {} THEN Fail(b, "GCODE_AXIS_WORDS_EXIST") ELSE b
  ELSE IF b.axis_command = AXIS_COMMAND_MOTION_MODE
  THEN IF b.modal.motion = MOTION_MODE_SEEK
       THEN IF b.axis_words = {} THEN [b EXCEPT !.axis_command = AXIS_COMMAND_NONE] ELSE b
       ELSE IF b.f = 0 THEN Fail(b, "GCODE_UNDEFINED_FEED_RATE")
       ELSE IF b.modal.motion = MOTION_MODE_LINEAR
       THEN IF b.axis_words = {} THEN [b EXCEPT !.axis_command = AXIS_COMMAND_NONE] ELSE b
       ELSE IF b.modal.motion \in {MOTION_MODE_CW_ARC, MOTION_MODE_CCW_ARC}
       THEN CheckArc(b, gs, ub)
       ELSE b
  ELSE b

\* CheckUnused that leaves the F word among the value words.
CheckUnused_KeepsF(b) ==
  IF b.status # "OK" THEN b
  ELSE LET axes == IF b.axis_command # AXIS_COMMAND_NONE
                   THEN {"WORD_X", "WORD_Y", "WORD_Z"} ELSE {}
           left == (b.value_words \ {"WORD_N"}) \ axes
       IN IF left # {} THEN Fail([b EXCEPT !.value_words = left], "GCODE_UNUSED_WORDS")
          ELSE [b EXCEPT !.value_words = left]

\* [0. Non-specific error-checks]: the unused value words.
CheckUnused(b) ==
  IF b.status # "OK" THEN b
  ELSE LET single == IF b.jog THEN {"WORD_N", "WORD_F"} ELSE {"WORD_N", "WORD_F", "WORD_S"}
           axes == IF b.axis_command # AXIS_COMMAND_NONE
                   THEN {"WORD_X", "WORD_Y", "WORD_Z"} ELSE {}
           left == (b.value_words \ single) \ axes
       IN IF left # {} THEN Fail([b EXCEPT !.value_words = left], "GCODE_UNUSED_WORDS")
          ELSE [b EXCEPT !.value_words = left]

\* STEP 1 to [19] of STEP 3: everything before the motion-mode checks.
CheckedBeforeMotion(gs, ee, line) ==
  CheckNonModal(
    CheckCoordSelect(
      CheckDwell(
        CheckFeed(
          Check0(ImportWords(BlockInit(gs, line), line.words, 1)),
          gs)),
      gs, ee),
    gs, ee)

\* STEP 1 to STEP 3: the block as STEP 4 receives it, or the failed block.
ParseAndCheck(gs, ee, line, ub) ==
  CheckUnused(CheckMotion(CheckedBeforeMotion(gs, ee, line), gs, ub))

\* ----------------------------------------------------------------- effects
\* What gc_execute_line does to its collaborators is recorded, in call order,
\* as a sequence of events: e names the function called, the other fields
\* are its arguments (those a call does not have stay at their defaults).
Ev(e) == [e |-> e, xyz |-> ZeroVec, feed |-> 0, cond |-> {}, p |-> 0, idx |-> 0,
          position |-> ZeroVec, offset |-> ZeroVec, radius |-> 0,
          axis_0 |-> 0, axis_1 |-> 0, clockwise |-> FALSE, status |-> "OK"]

\* The calls gc_execute_line makes that wait on the realtime executor.
SuspendingCalls == {"mc_dwell", "protocol_buffer_synchronize", "protocol_execute_realtime"}
\* The calls that hand a motion to the planner.
MotionCalls == {"mc_line", "mc_arc"}

\* The outcome of STEP 4: status, the three pieces of state, the events.
Outcome(status, gs, ee, sy, events) ==
  [status |-> status, gs |-> gs, ee |-> ee, sy |-> sy, events |-> events]

\* ----------------------------------------------------------------- STEP 4
\* ExecuteJog with the modes and the feed rate of the jog block committed
\* along with the position.
ExecuteJog_Commit(b, gs, ee, sy, jog_status) ==
  LET call == [Ev("jog_execute") EXCEPT !.xyz = b.xyz, !.feed = b.f,
                                         !.status = jog_status]
  IN Outcome(jog_status,
             IF jog_status = "OK"
             THEN [gs EXCEPT !.position = b.xyz, !.modal.distance = b.modal.distance,
                             !.modal.units = b.modal.units, !.feed_rate = b.f]
             ELSE gs,
             ee, sy, <<call>>)

\* Jog: the last two checks, then jog_execute; position follows on OK.
ExecuteJog(b, gs, ee, sy, jog_status) ==
  IF b.command_words \ {"MODAL_GROUP_G3", "MODAL_GROUP_G6", "MODAL_GROUP_G0"} # {}
  THEN Outcome("INVALID_JOG_COMMAND", gs, ee, sy, <<>>)
  ELSE IF ~(b.non_modal_command \in {NON_MODAL_ABSOLUTE_OVERRIDE, NON_MODAL_NO_ACTION})
  THEN Outcome("INVALID_JOG_COMMAND", gs, ee, sy, <<>>)
  ELSE LET call == [Ev("jog_execute") EXCEPT !.xyz = b.xyz, !.feed = b.f,
                                             !.status = jog_status]
       IN Outcome(jog_status,
                  IF jog_status = "OK" THEN [gs EXCEPT !.position = b.xyz] ELSE gs,
                  ee, sy, <<call>>)

\* [0] [2] [3]: line number, feed rate mode, feed rate.
CommitFeed(b, gs) ==
  [gs EXCEPT !.line_number = b.n,
             !.modal.feed_rate = b.modal.feed_rate,
             !.feed_rate = b.f]
\* pl_data as the motion calls receive it.
PlanCondition(b) ==
  (IF b.modal.feed_rate # 0 THEN {"PL_COND_FLAG_INVERSE_TIME"} ELSE {})
  \cup (IF b.modal.motion = MOTION_MODE_SEEK THEN {"PL_COND_FLAG_RAPID_MOTION"} ELSE {})

\* DwellEvents without the test of the non-modal command.
DwellEvents_Unguarded(b) == <<[Ev("mc_dwell") EXCEPT !.p = b.p]>>

\* [10. Dwell]
DwellEvents(b) ==
  IF b.non_modal_command = NON_MODAL_DWELL
  THEN <<[Ev("mc_dwell") EXCEPT !.p = b.p]>> ELSE <<>>

\* [12] [15] [17]: units, coordinate system selection, distance mode.
CommitModes(b, gs) ==
  LET g1 == [gs EXCEPT !.modal.units = b.modal.units]
      g2 == IF g1.modal.coord_select # b.modal.coord_select
            THEN [g1 EXCEPT !.modal.coord_select = b.modal.coord_select,
                            !.coord_system = b.block_coord_system]
            ELSE g1
  IN [g2 EXCEPT !.modal.distance = b.modal.distance]
CoordSelectEvents(b, gs) ==
  IF gs.modal.coord_select # b.modal.coord_select
  THEN <<Ev("system_flag_wco_change")>> ELSE <<>>

\* CommitG10 with a case for G92 that stores the axis values as the G92
\* offset.
CommitG10_WithG92(b, gs) ==
  IF b.non_modal_command = NON_MODAL_SET_COORDINATE_DATA
     /\ gs.modal.coord_select = b.coord_select
  THEN [gs EXCEPT !.coord_system = b.ijk]
  ELSE IF b.non_modal_command = 92 THEN [gs EXCEPT !.coord_offset = b.xyz]
  ELSE gs
\* [19] G10: the write to the settings store, the active system refreshed.
CommitG10(b, gs) ==
  IF b.non_modal_command = NON_MODAL_SET_COORDINATE_DATA
     /\ gs.modal.coord_select = b.coord_select
  THEN [gs EXCEPT !.coord_system = b.ijk] ELSE gs
\* G10Store writing the first coordinate system, whatever P says.
G10Store_First(b, ee) ==
  IF b.non_modal_command = NON_MODAL_SET_COORDINATE_DATA
  THEN settings_write_coord_data(ee, 0, b.ijk) ELSE ee
G10Store(b, ee) ==
  IF b.non_modal_command = NON_MODAL_SET_COORDINATE_DATA
  THEN settings_write_coord_data(ee, b.coord_select, b.ijk) ELSE ee
G10Events(b, gs) ==
  IF b.non_modal_command = NON_MODAL_SET_COORDINATE_DATA
  THEN <<[Ev("settings_write_coord_data") EXCEPT !.idx = b.coord_select, !.xyz = b.ijk]>>
       \o (IF gs.modal.coord_select = b.coord_select
           THEN <<Ev("system_flag_wco_change")>> ELSE <<>>)
  ELSE <<>>

\* [20. Motion modes]: the motion handed to the planner, the position updated.
EntersMotion(b) ==
  b.modal.motion # MOTION_MODE_NONE /\ b.axis_command = AXIS_COMMAND_MOTION_MODE
CommitMotion(b, gs) ==
  LET g1 == [gs EXCEPT !.modal.motion = b.modal.motion]
  IN IF EntersMotion(b) THEN [g1 EXCEPT !.position = b.xyz] ELSE g1
MotionEvents(b, gs, ub) ==
  IF ~EntersMotion(b) THEN <<>>
  ELSE IF b.modal.motion \in {MOTION_MODE_LINEAR, MOTION_MODE_SEEK}
  THEN <<[Ev("mc_line") EXCEPT !.xyz = b.xyz, !.feed = b.f, !.cond = PlanCondition(b)]>>
  ELSE IF b.modal.motion \in {MOTION_MODE_CW_ARC, MOTION_MODE_CCW_ARC}
  THEN <<[Ev("mc_arc") EXCEPT !.xyz = b.xyz, !.feed = b.f, !.cond = PlanCondition(b),
                               !.position = gs.position, !.offset = b.ijk,
                               !.radius = b.r, !.axis_0 = ub.axis_0,
                               !.axis_1 = ub.axis_1, !.clockwise = b.arc_is_clockwise]>>
  ELSE <<>>

\* PauseEvents without the test of check mode.
PauseEvents_Always(sy) ==
  <<Ev("system_set_exec_state_flag"), Ev("protocol_execute_realtime")>>

\* M0: the feed hold and the realtime executor, outside check mode.
PauseEvents(sy) ==
  IF sy.state # STATE_CHECK_MODE
  THEN <<Ev("system_set_exec_state_flag"), Ev("protocol_execute_realtime")>>
  ELSE <<>>

\* [21. Program flow]
ProgramFlow(b, gs, ee, sy, events) ==
  LET g1 == [gs EXCEPT !.modal.program_flow = b.modal.program_flow]
      running == [g1 EXCEPT !.modal.program_flow = PROGRAM_FLOW_RUNNING]
      sync == events \o <<Ev("protocol_buffer_synchronize")>>
  IN IF g1.modal.program_flow = PROGRAM_FLOW_RUNNING
     THEN Outcome("OK", g1, ee, sy, events)
     ELSE IF g1.modal.program_flow = PROGRAM_FLOW_PAUSED
     THEN Outcome("OK", running, ee, sy, sync \o PauseEvents(sy))
     ELSE \* PROGRAM_FLOW_COMPLETED
       LET g2 == [g1 EXCEPT !.modal.motion = MOTION_MODE_LINEAR,
                            !.modal.distance = DISTANCE_MODE_ABSOLUTE,
                            !.modal.feed_rate = FEED_RATE_MODE_UNITS_PER_MIN,
                            !.modal.coord_select = 0]
           sy2 == [sy EXCEPT !.f_override = DEFAULT_FEED_OVERRIDE,
                             !.r_override = DEFAULT_RAPID_OVERRIDE]
           g3 == [g2 EXCEPT !.coord_system = settings_read_coord_data(ee, 0)]
           done == <<Ev("report_feedback_message")>>
       IN IF sy.state # STATE_CHECK_MODE
          THEN IF ~settings_read_ok(ee, 0)
               THEN Outcome("SETTING_READ_FAIL", g3, ee, sy2, sync)
               ELSE Outcome("OK", [g3 EXCEPT !.modal.program_flow = PROGRAM_FLOW_RUNNING],
                            ee, sy2, sync \o <<Ev("system_flag_wco_change")>> \o done)
          ELSE Outcome("OK", [g2 EXCEPT !.modal.program_flow = PROGRAM_FLOW_RUNNING],
                       ee, sy2, sync \o done)

\* ExecuteBlock with the motion handed to the planner before the dwell, the
\* coordinate system change and the G10 write.
ExecuteBlock_MotionFirst(b, gs, ee, sy, ub) ==
  LET g1 == CommitFeed(b, gs)
      g2 == CommitModes(b, g1)
      g3 == CommitG10(b, g2)
      g4 == CommitMotion(b, g3)
      events == MotionEvents(b, g3, ub) \o DwellEvents(b) \o CoordSelectEvents(b, g1)
                \o G10Events(b, g2)
  IN ProgramFlow(b, g4, G10Store(b, ee), sy, events)
\* STEP 4 for a block that is not a jog.
ExecuteBlock(b, gs, ee, sy, ub) ==
  LET g1 == CommitFeed(b, gs)
      g2 == CommitModes(b, g1)
      g3 == CommitG10(b, g2)
      g4 == CommitMotion(b, g3)
      events == DwellEvents(b) \o CoordSelectEvents(b, g1) \o G10Events(b, g2)
                \o MotionEvents(b, g3, ub)
  IN ProgramFlow(b, g4, G10Store(b, ee), sy, events)

\* gc_execute_line with the line number, feed mode and feed rate of the block
\* written to gc_state before the checks of STEP 3 have passed.
gc_execute_line_EarlyWrite(gs, ee, sy, line, jog_status, ub) ==
  LET b == ParseAndCheck(gs, ee, line, ub)
  IN IF b.status # "OK" THEN Outcome(b.status, CommitFeed(b, gs), ee, sy, <<>>)
     ELSE IF b.jog THEN ExecuteJog(b, gs, ee, sy, jog_status)
     ELSE ExecuteBlock(b, gs, ee, sy, ub)

\* gc_execute_line: the status returned, the state left behind and the calls
\* made, for one line.  jog_status is what jog_execute returns if called; ub
\* is what the unassigned arc-plane locals hold.
gc_execute_line(gs, ee, sy, line, jog_status, ub) ==
  LET b == ParseAndCheck(gs, ee, line, ub)
  IN IF b.status # "OK" THEN Outcome(b.status, gs, ee, sy, <<>>)
     ELSE IF b.jog THEN ExecuteJog(b, gs, ee, sy, jog_status)
     ELSE ExecuteBlock(b, gs, ee, sy, ub)

\* gc_init: gc_state zeroed, the G54 offsets loaded.
gc_init(ee) ==
  [ modal |-> [motion |-> MOTION_MODE_SEEK,
               feed_rate |-> FEED_RATE_MODE_UNITS_PER_MIN,
               units |-> UNITS_MODE_MM,
               distance |-> DISTANCE_MODE_ABSOLUTE,
               coord_select |-> 0,
               program_flow |-> PROGRAM_FLOW_RUNNING],
    feed_rate |-> 0,
    line_number |-> 0,
    position |-> ZeroVec,
    coord_system |-> settings_read_coord_data(ee, 0),
    coord_offset |-> ZeroVec ]

\* ----------------------------------------------------------------- bounds
\* Parser positions are explored within +-MaxPos units on every axis.
MaxPos == 1
\* The value a read outside the axis arrays may yield, besides 0.
GarbageValue == 300
\* Arc blocks are explored within +-MaxArcPos units on every axis.
MaxArcPos == 10

\* ----------------------------------------------------------------- environment
\* What jog_execute may return.
JogStatuses == {"OK", "TRAVEL_EXCEEDED"}
\* What the unassigned locals axis_0 and axis_1 may hold, and what a read
\* outside the axis arrays may yield.
UBChoices ==
  { ub \in [axis_0 : 0 .. N_AXIS, axis_1 : 0 .. N_AXIS, garbage : {0, GarbageValue}] :
      (ub.axis_0 \in Axes /\ ub.axis_1 \in Axes) => ub.garbage = 0 }
NoUB == [axis_0 |-> 0, axis_1 |-> 0, garbage |-> 0]
\* The locals are read only by the arc checks of STEP 3 and by mc_arc.
ReachesArc(gs, ee, line) ==
  LET b == CheckedBeforeMotion(gs, ee, line)
  IN /\ b.status = "OK"
     /\ b.axis_command = AXIS_COMMAND_MOTION_MODE
     /\ b.modal.motion \in {MOTION_MODE_CW_ARC, MOTION_MODE_CCW_ARC}
     /\ b.f # 0
UBFor(gs, ee, line) == IF ReachesArc(gs, ee, line) THEN UBChoices ELSE {NoUB}
JogStatusFor(line) == IF line.jog THEN JogStatuses ELSE {"OK"}

\* ----------------------------------------------------------------- blocks by their words
\* The words of a line, read without the parser.
WordsOf(l) == {l.words[i] : i \in 1 .. Len(l.words)}
HasLetter(l, c) == \E w \in WordsOf(l) : w.l = c
HasG(l, codes) == \E w \in WordsOf(l) : w.l = "G" /\ w.v \in codes
HasM(l, codes) == \E w \in WordsOf(l) : w.l = "M" /\ w.v \in codes
ValueOfLetter(l, c) == (CHOOSE w \in WordsOf(l) : w.l = c).v
HasAxisWords(l) == HasLetter(l, "X") \/ HasLetter(l, "Y")
\* Command words, in hundredths.
G123 == {1 * Scale, 2 * Scale, 3 * Scale}
GMotionWords == G123 \cup {0, 80 * Scale, 3820, 3830, 3840, 3850}
GAxisNonModal == {10 * Scale, 28 * Scale, 30 * Scale, 92 * Scale}
G93Word == {93 * Scale}
G94Word == {94 * Scale}

\* A G1, G2 or G3 motion block, explicit (the word is in the line) or implicit
\* (axis words alone, under a committed G1, G2 or G3).
IsG123Block(l, gs) ==
  /\ ~l.jog
  /\ \/ HasG(l, G123)
     \/ /\ ~HasG(l, GMotionWords) /\ ~HasG(l, GAxisNonModal)
        /\ HasAxisWords(l)
        /\ gs.modal.motion \in {MOTION_MODE_LINEAR, MOTION_MODE_CW_ARC, MOTION_MODE_CCW_ARC}
\* A G1 block, explicit or implicit.
IsG1Block(l, gs) ==
  /\ ~l.jog
  /\ \/ HasG(l, {1 * Scale})
     \/ /\ ~HasG(l, GMotionWords) /\ ~HasG(l, GAxisNonModal)
        /\ HasAxisWords(l)
        /\ gs.modal.motion = MOTION_MODE_LINEAR
\* A G0 block, explicit or implicit.
IsG0Block(l, gs) ==
  /\ ~l.jog
  /\ \/ HasG(l, {0})
     \/ /\ ~HasG(l, GMotionWords) /\ ~HasG(l, GAxisNonModal)
        /\ HasAxisWords(l)
        /\ gs.modal.motion = MOTION_MODE_SEEK
\* The feed mode in force for a block.
BlockFeedMode(l, gs) ==
  IF HasG(l, G93Word) THEN FEED_RATE_MODE_INVERSE_TIME
  ELSE IF HasG(l, G94Word) THEN FEED_RATE_MODE_UNITS_PER_MIN
  ELSE gs.modal.feed_rate
\* The feed rate in force for a block: its F word, else the retained value
\* when the block and the state are both in G94, else none.
EffectiveFeed(l, gs) ==
  IF HasLetter(l, "F") THEN ValueOfLetter(l, "F")
  ELSE IF BlockFeedMode(l, gs) = FEED_RATE_MODE_UNITS_PER_MIN
          /\ gs.modal.feed_rate = FEED_RATE_MODE_UNITS_PER_MIN
       THEN gs.feed_rate
       ELSE 0

\* The distance mode in force for a block.
BlockDistance(l, gs) ==
  IF HasG(l, {91 * Scale}) THEN DISTANCE_MODE_INCREMENTAL
  ELSE IF HasG(l, {90 * Scale}) THEN DISTANCE_MODE_ABSOLUTE
  ELSE gs.modal.distance
\* A G0 or G1 block that moves X by an increment.
IsIncrementalXBlock(l, gs) ==
  /\ IsG0Block(l, gs) \/ IsG1Block(l, gs)
  /\ HasLetter(l, "X")
  /\ ~HasG(l, {53 * Scale})
  /\ BlockDistance(l, gs) = DISTANCE_MODE_INCREMENTAL

\* ----------------------------------------------------------------- state
VARIABLES
  gc_state,     \* parser_state_t gc_state
  eeprom,       \* the settings store: coordinate data and failed checksums
  sys,          \* system_t sys: state, f_override, r_override
  pl_position,  \* the planner's position: the target of the last motion handed over
  pc,           \* "idle": before a line is fetched; "done": gc_execute_line returned
  line,         \* the line of the last call
  status,       \* the status it returned
  events,       \* the calls it made
  pre,          \* gc_state, eeprom and sys when it was entered
  g91_run       \* the current run of accepted incremental X blocks: the X it
                \* started from and the sum of its increments

vars == <<gc_state, eeprom, sys, pl_position, pc, line, status, events, pre, g91_run>>

NoLine == Block(<<>>)

EepromInit ==
  [coord |-> [i \in 0 .. (N_COORDINATE_SYSTEM - 1) |->
                IF i = 1 THEN Vec(Scale, 0) ELSE ZeroVec],
   bad |-> {}]

Init ==
  /\ eeprom = EepromInit
  /\ gc_state = gc_init(EepromInit)
  /\ sys = [state |-> STATE_IDLE, f_override |-> DEFAULT_FEED_OVERRIDE,
            r_override |-> DEFAULT_RAPID_OVERRIDE]
  /\ pl_position = ZeroVec
  /\ pc = "idle"
  /\ line = NoLine
  /\ status = "OK"
  /\ events = <<>>
  /\ pre = [gs |-> gc_init(EepromInit), ee |-> EepromInit,
             sy |-> [state |-> STATE_IDLE, f_override |-> DEFAULT_FEED_OVERRIDE,
                     r_override |-> DEFAULT_RAPID_OVERRIDE]]
  /\ g91_run = [start |-> 0, sum |-> 0]

Within(pos, max) == \A idx \in Axes : Abs(pos[idx]) <= max * Scale

\* The events of a call that handed a motion to the planner.
IsMotion(ev) == ev.e \in MotionCalls \/ (ev.e = "jog_execute" /\ ev.status = "OK")
RECURSIVE LastTarget(_, _)
LastTarget(evs, dflt) ==
  IF evs = <<>> THEN dflt
  ELSE IF IsMotion(evs[Len(evs)]) THEN evs[Len(evs)].xyz
  ELSE LastTarget(SubSeq(evs, 1, Len(evs) - 1), dflt)

\* The main loop passes one line of the set L to gc_execute_line; positions
\* are explored within +-max units.
ExecuteLineWithin(L, max) ==
  /\ pc = "idle"
  /\ \E l \in L : \E js \in JogStatusFor(l) : \E ub \in UBFor(gc_state, eeprom, l) :
       LET out == gc_execute_line(gc_state, eeprom, sys, l, js, ub) IN
       /\ Within(out.gs.position, max)
       /\ gc_state' = out.gs
       /\ eeprom' = out.ee
       /\ sys' = out.sy
       /\ pl_position' = LastTarget(out.events, pl_position)
       /\ line' = l
       /\ status' = out.status
       /\ events' = out.events
       /\ pre' = [gs |-> gc_state, ee |-> eeprom, sy |-> sys]
       /\ g91_run' = IF out.status = "OK" /\ IsIncrementalXBlock(l, gc_state)
                     THEN [g91_run EXCEPT !.sum = @ + ValueOfLetter(l, "X")]
                     ELSE [start |-> out.gs.position[X_AXIS], sum |-> 0]
       /\ pc' = "done"

ExecuteLine(L) == ExecuteLineWithin(L, MaxPos)

\* The main loop reports the status and turns to the next line.
ReportStatus ==
  /\ pc = "done"
  /\ pc' = "idle"
  /\ line' = NoLine
  /\ status' = "OK"
  /\ events' = <<>>
  /\ pre' = [gs |-> gc_state, ee |-> eeprom, sy |-> sys]
  /\ UNCHANGED <<gc_state, eeprom, sys, pl_position, g91_run>>

\* The stored data of coordinate system idx no longer matches its checksum.
EepromFault(idx) ==
  /\ pc = "idle"
  /\ ~(idx \in eeprom.bad)
  /\ eeprom' = [eeprom EXCEPT !.bad = @ \cup {idx}]
  /\ pre' = [pre EXCEPT !.ee = eeprom']
  /\ UNCHANGED <<gc_state, sys, pl_position, pc, line, status, events, g91_run>>

\* ----------------------------------------------------------------- lines
\* Word values: 1 unit = Scale.
U == Scale
TooBigN == (MAX_LINE_NUMBER + 1) * Scale
\* The command words Gc, Gc.m (m in hundredths) and Mc.
G(c) == W("G", c * Scale)
Gx(c, m) == W("G", c * Scale + m)
M(c) == W("M", c * Scale)

\* The lines of Spec: motion, feed and distance modes, dwell, program flow,
\* jogs, and lines with more than one defect.
MotionLines ==
  { Block(<<G(0), W("X", U)>>),
    Block(<<G(0), W("X", -U)>>),
    Block(<<G(1), W("X", U), W("F", U)>>),
    Block(<<G(1), W("X", 0)>>),
    Block(<<G(1)>>),
    Block(<<W("X", U)>>),
    Block(<<W("X", -U)>>),
    Block(<<G(53), G(1), W("X", 0)>>),
    Block(<<G(80)>>),
    Block(<<G(80), W("X", U)>>),
    Block(<<G(2), W("X", U), W("R", U)>>),
    Block(<<G(2), W("X", U), W("R", U), W("F", U)>>),
    Block(<<G(3), W("X", U), W("I", U \div 2)>>),
    Block(<<G(4), W("P", U)>>),
    Block(<<G(4), W("P", U), G(1), W("X", U), W("F", 2 * U)>>) }

ModalLines ==
  { Block(<<G(90)>>),
    Block(<<G(91)>>),
    Block(<<G(93)>>),
    Block(<<G(94)>>),
    Block(<<G(93), G(1), W("X", U), W("F", 2 * U)>>),
    Block(<<G(94), G(1), W("X", U)>>),
    Block(<<W("F", U)>>),
    Block(<<W("F", 2 * U)>>),
    Block(<<W("F", 0)>>),
    Block(<<>>) }

FlowLines ==
  { Block(<<M(0)>>),
    Block(<<M(1)>>),
    Block(<<M(2)>>),
    Block(<<M(30)>>),
    Block(<<W("F", 2 * U), M(2)>>),
    Block(<<G(1), W("X", U), W("F", U), M(2)>>),
    Block(<<G(0), W("X", 0), M(0)>>) }

JogLines ==
  { Jog(<<W("X", U), W("F", U)>>),
    Jog(<<G(91), W("X", -U), W("F", 2 * U)>>),
    Jog(<<W("F", U)>>),
    Jog(<<W("X", U)>>),
    Jog(<<G(1), W("X", U), W("F", U)>>),
    Jog(<<G(4), W("P", U), W("F", U)>>),
    Jog(<<G(20), G(91), W("N", 5 * U), W("X", U), W("F", 2 * U)>>) }

\* Lines with a defect besides, or instead of, the one a feed check finds.
DefectLines ==
  { Block(<<G(1), W("X", U), W("N", TooBigN)>>),
    Block(<<G(93), G(1), W("X", U), W("N", TooBigN)>>),
    Block(<<G(1), W("X", U), W("X", U)>>),
    Block(<<G(1), W("X", U), G(18)>>),
    Block(<<G(1), W("X", U), W("R", U)>>),
    Block(<<G(53), G(2), W("X", U)>>),
    Block(<<G(4), G(1), W("X", U)>>),
    Block(<<W("x", U)>>),
    Block(<<NoNum("X")>>),
    Block(<<W("F", -U)>>),
    Block(<<G(0), W("Z", U)>>) }

Lines == MotionLines \cup ModalLines \cup FlowLines \cup JogLines \cup DefectLines

Next ==
  \/ ExecuteLine(Lines)
  \/ ReportStatus
  \/ EepromFault(0)

Spec == Init /\ [][Next]_vars

\* ----------------------------------------------------------------- outcome of the last call
Done == pc = "done"
Rejected == Done /\ status # "OK"
Accepted == Done /\ status = "OK"
EventsNamed(names) == {i \in 1 .. Len(events) : events[i].e \in names}
Called(name) == EventsNamed({name}) # {}
\* The events that are motions handed to the planner.
MotionEventIdx == {i \in 1 .. Len(events) : IsMotion(events[i])}
\* Every event but a jog_execute that refused the jog has acted on a collaborator.
SideEffectIdx ==
  {i \in 1 .. Len(events) : ~(events[i].e = "jog_execute" /\ events[i].status # "OK")}

\* ----------------------------------------------------------------- C1
\* C1: every call of gc_execute_line that returns a status other than OK
\* leaves gc_state as it was and has had no side effect (no motion, dwell,
\* sync, settings write, feed hold, override reset).
C1_RejectedLeavesNoTrace ==
  Rejected => /\ gc_state = pre.gs
              /\ eeprom = pre.ee
              /\ sys = pre.sy
              /\ SideEffectIdx = {}

\* ----------------------------------------------------------------- C4
\* C4: motions reach the planner in line order: an accepted G0/G1/G2/G3 block
\* with axis words makes exactly one mc_line or mc_arc call, carrying the
\* block's target; a rejected line makes none.
C4_OneMotionPerAcceptedLine ==
  /\ Rejected => MotionEventIdx = {}
  /\ (Accepted /\ HasAxisWords(line) /\ (IsG123Block(line, pre.gs) \/ IsG0Block(line, pre.gs)))
       => /\ Cardinality(MotionEventIdx) = 1
          /\ \A i \in MotionEventIdx : /\ events[i].e \in MotionCalls
                                       /\ events[i].xyz = gc_state.position

\* ----------------------------------------------------------------- C6
\* C6: in G94 the feed rate is sticky: an accepted G94 motion block without F
\* is planned with the retained feed rate, and rejected blocks, jog blocks and
\* M2/M30 do not change the retained value.
C6_FeedStickyInG94 ==
  /\ (Accepted /\ ~line.jog /\ ~HasLetter(line, "F")
        /\ pre.gs.modal.feed_rate = FEED_RATE_MODE_UNITS_PER_MIN
        /\ BlockFeedMode(line, pre.gs) = FEED_RATE_MODE_UNITS_PER_MIN)
       => /\ gc_state.feed_rate = pre.gs.feed_rate
          /\ \A i \in MotionEventIdx : events[i].feed = pre.gs.feed_rate
  /\ (Rejected \/ (Done /\ line.jog)) => gc_state.feed_rate = pre.gs.feed_rate

\* ----------------------------------------------------------------- C10
\* C10: a block with axis words and no motion command is executed with the
\* committed motion mode, and rejected blocks and jog blocks never change the
\* modes in force (motion, distance, feed mode, coordinate system).
C10_ModesPersist ==
  /\ (Accepted /\ ~line.jog /\ HasAxisWords(line)
        /\ ~HasG(line, GMotionWords) /\ ~HasG(line, GAxisNonModal)
        /\ ~HasM(line, {2 * Scale, 30 * Scale}))
       => gc_state.modal.motion = pre.gs.modal.motion
  /\ (Rejected \/ (Done /\ line.jog))
       => /\ gc_state.modal = pre.gs.modal
          /\ gc_state.coord_system = pre.gs.coord_system

\* ----------------------------------------------------------------- C5
\* The block as it stands after word ingestion and the line-number check.
Ingested(l, gs) == Check0(ImportWords(BlockInit(gs, l), l.words, 1))
MProgramFlow == {0, 2 * Scale, 30 * Scale}

\* C5 (as stated): gc_execute_line runs to completion without suspension; for
\* every input line it makes no call of protocol_execute_realtime, no
\* buffer-synchronize wait and no dwell wait between entry and return.
C5_NeverSuspends == Done => EventsNamed(SuspendingCalls) = {}

\* C5 (amended): parsing and validation never wait, and the waiting calls are
\* made only while an accepted or program-ending block is dispatched: mc_dwell
\* only for, and for every accepted, non-jog block with G4; the buffer
\* synchronize only for a non-jog block with M0, M2 or M30 or under a program
\* flow left not running, and for every accepted block with M0, M2 or M30;
\* protocol_execute_realtime only for a block with M0.  A rejected line
\* without M2 or M30, under a running program flow, has made none of them.
C5_SuspendsOnlyInDispatch ==
  Done =>
    /\ Called("mc_dwell") => ~line.jog /\ HasG(line, {4 * Scale})
    /\ Called("protocol_buffer_synchronize")
         => /\ ~line.jog
            /\ \/ HasM(line, MProgramFlow)
               \/ pre.gs.modal.program_flow # PROGRAM_FLOW_RUNNING
    /\ Called("protocol_execute_realtime") => ~line.jog /\ HasM(line, {0})
    /\ (status # "OK" /\ ~HasM(line, {2 * Scale, 30 * Scale})
          /\ pre.gs.modal.program_flow = PROGRAM_FLOW_RUNNING)
         => EventsNamed(SuspendingCalls) = {}
    /\ (status = "OK" /\ ~line.jog /\ HasG(line, {4 * Scale})) => Called("mc_dwell")
    /\ (status = "OK" /\ ~line.jog /\ HasM(line, MProgramFlow))
         => Called("protocol_buffer_synchronize")
    /\ (status = "OK" /\ ~line.jog /\ HasM(line, {0})
          /\ sys.state # STATE_CHECK_MODE) => Called("protocol_execute_realtime")
\* An accepted dwell block has called mc_dwell.
C5_Witness == Accepted /\ HasG(line, {4 * Scale}) /\ Called("mc_dwell")

\* ----------------------------------------------------------------- C7
\* C7: in G93 the feed rate is never carried over: a G1/G2/G3 motion block
\* (explicit, or implicit through axis words) without an F word is never
\* accepted, and once its words are ingested its status is
\* UNDEFINED_FEED_RATE, whatever feed rate the previous block left; after an
\* accepted G93 block without F, gc_state.feed_rate is 0.
C7_InverseTimeFeedNotRetained ==
  (Done /\ ~line.jog /\ ~HasLetter(line, "F")
     /\ BlockFeedMode(line, pre.gs) = FEED_RATE_MODE_INVERSE_TIME)
    => /\ IsG123Block(line, pre.gs)
            => /\ status # "OK"
               /\ Ingested(line, pre.gs).status = "OK"
                    => status = "GCODE_UNDEFINED_FEED_RATE"
       /\ status = "OK" => gc_state.feed_rate = 0
\* A G93 motion block without F, rejected although the block before left F > 0.
C7_Witness ==
  /\ Rejected /\ status = "GCODE_UNDEFINED_FEED_RATE"
  /\ ~line.jog /\ ~HasLetter(line, "F") /\ IsG123Block(line, pre.gs)
  /\ pre.gs.modal.feed_rate = FEED_RATE_MODE_INVERSE_TIME
  /\ pre.gs.feed_rate > 0

\* ----------------------------------------------------------------- C8
\* C8: a G1, G2 or G3 motion block whose effective feed rate is 0 is never
\* accepted, fails with UNDEFINED_FEED_RATE when nothing before the motion
\* checks fails, and leaves motion mode and position as they were; a G0 block
\* never fails for want of a feed rate.
C8_ZeroFeedRejected ==
  (Done /\ ~line.jog)
    => /\ (IsG123Block(line, pre.gs) /\ EffectiveFeed(line, pre.gs) = 0)
            => /\ status # "OK"
               /\ gc_state.modal.motion = pre.gs.modal.motion
               /\ gc_state.position = pre.gs.position
               /\ CheckedBeforeMotion(pre.gs, pre.ee, line).status
                      \in {"OK", "GCODE_UNDEFINED_FEED_RATE"}
                    => status = "GCODE_UNDEFINED_FEED_RATE"
       /\ IsG0Block(line, pre.gs) => status # "GCODE_UNDEFINED_FEED_RATE"
\* The first G94 motion block after G93, without F, is rejected.
C8_Witness ==
  /\ Rejected /\ status = "GCODE_UNDEFINED_FEED_RATE"
  /\ ~line.jog /\ IsG123Block(line, pre.gs) /\ HasAxisWords(line)
  /\ EffectiveFeed(line, pre.gs) = 0
  /\ pre.gs.modal.feed_rate = FEED_RATE_MODE_INVERSE_TIME
  /\ HasG(line, G94Word)

\* ----------------------------------------------------------------- C2
\* Lines with the probe cycles of the 'G' case, among plain motions.
ProbeLines ==
  { Block(<<Gx(38, 20), W("X", U), W("F", U)>>),
    Block(<<Gx(38, 20), W("X", 0), W("F", U)>>),
    Block(<<Gx(38, 30), W("X", -U), W("F", U)>>),
    Block(<<Gx(38, 20), W("F", U)>>),
    Block(<<G(0), W("X", U)>>),
    Block(<<G(0), W("X", -U)>>),
    Block(<<G(1), W("X", 0), W("F", U)>>),
    Block(<<G(1), W("Y", U), W("F", 2 * U)>>),
    Block(<<G(0), W("Y", 0)>>),
    Jog(<<W("X", U), W("F", U)>>),
    Block(<<G(4), W("P", U), Gx(38, 20), W("X", U), W("F", U)>>),
    Block(<<G(4), W("P", U), G(1), W("X", U), W("F", U), M(0)>>),
    Block(<<M(2)>>) }
NextProbe ==
  \/ ExecuteLine(ProbeLines)
  \/ ReportStatus
  \/ EepromFault(0)
SpecProbe == Init /\ [][NextProbe]_vars

\* C2: whenever a call returns OK, gc_state.position equals the target of the
\* most recent motion handed to the planner (mc_line, mc_arc or jog target),
\* and a block that hands no motion to the planner leaves it unchanged.
C2_PositionFollowsPlanner ==
  Accepted => /\ gc_state.position = pl_position
              /\ MotionEventIdx = {} => gc_state.position = pre.gs.position

\* ----------------------------------------------------------------- C3
\* The command words the 'G' and the 'M' case accept, by modal group.
GroupNonModal == {G(4), G(10), G(28), Gx(28, 10), G(30), Gx(30, 10), G(53), G(92), Gx(92, 10)}
GroupMotion == {G(0), G(1), G(2), G(3), Gx(38, 20), Gx(38, 30), Gx(38, 40), Gx(38, 50), G(80)}
GroupDistance == {G(90), G(91)}
GroupFeedMode == {G(93), G(94)}
GroupUnits == {G(20), G(21)}
GroupCoordSystem == {G(54), G(55), G(56), G(57), G(58), G(59)}
GroupProgramFlow == {M(0), M(1), M(2), M(30)}
ModalGroups == {GroupNonModal, GroupMotion, GroupDistance, GroupFeedMode, GroupUnits,
                GroupCoordSystem, GroupProgramFlow}
\* The words that set axis_command: they exclude one another before the
\* modal-group check is reached.
AxisCommandWords ==
  {G(0), G(1), G(2), G(3), Gx(38, 20), Gx(38, 30), Gx(38, 40), Gx(38, 50),
   G(10), G(28), G(30), G(92)}
SameGroup(w1, w2) == w1 # w2 /\ \E grp \in ModalGroups : w1 \in grp /\ w2 \in grp
\* A block made of two different command words of one modal group.
IsPairLine(l) == Len(l.words) = 2 /\ SameGroup(l.words[1], l.words[2])
\* A block with two different command words of one modal group among its words.
HasPair(l) ==
  \E i \in 1 .. Len(l.words) : \E j \in 1 .. Len(l.words) :
    i < j /\ SameGroup(l.words[i], l.words[j])

PairLines ==
  {l \in {Block(<<w1, w2>>) : w1, w2 \in UNION ModalGroups} : IsPairLine(l)}
PairContextLines ==
  { Block(<<G(0), W("X", U)>>),
    Block(<<G(0), W("X", 0)>>),
    Block(<<G(91)>>),
    Block(<<G(90), W("X", U), G(91)>>),
    Block(<<G(1), W("X", U), W("F", U), G(0)>>),
    Block(<<M(2), G(0), W("X", U), M(30)>>),
    Jog(<<G(90), G(91), W("X", U), W("F", U)>>),
    Jog(<<W("X", U), W("F", U)>>) }
NextPairs ==
  \/ ExecuteLine(PairLines \cup PairContextLines)
  \/ ReportStatus
  \/ EepromFault(0)
SpecPairs == Init /\ [][NextPairs]_vars

\* C3 (as stated): a block that contains two codes of the same modal group is
\* rejected with MODAL_GROUP_VIOLATION, in either order of the two words.
C3_PairIsModalGroupViolation ==
  (Done /\ IsPairLine(line)) => status = "GCODE_MODAL_GROUP_VIOLATION"

\* C3 (amended): a block that contains two different codes of the same modal
\* group is rejected, in either order, and leaves the parser state as it was;
\* a block made of the two words alone fails with AXIS_COMMAND_CONFLICT when
\* both words are axis commands (G0, G1, G2, G3, G38.x; G10, G28, G30, G92)
\* and with MODAL_GROUP_VIOLATION otherwise.
C3_SameGroupPairRejected ==
  (Done /\ HasPair(line))
    => /\ status # "OK"
       /\ gc_state = pre.gs
       /\ events = <<>>
       /\ IsPairLine(line)
            => status = IF {line.words[1], line.words[2]} \subseteq AxisCommandWords
                        THEN "GCODE_AXIS_COMMAND_CONFLICT"
                        ELSE "GCODE_MODAL_GROUP_VIOLATION"
\* A pair rejected with MODAL_GROUP_VIOLATION although its second word is an
\* axis command: the first word was not.
C3_Witness ==
  /\ Rejected /\ IsPairLine(line)
  /\ status = "GCODE_MODAL_GROUP_VIOLATION"
  /\ line.words[1] = G(80) /\ line.words[2] = G(1)

\* ----------------------------------------------------------------- C9
\* Lines that move under both distance modes, two coordinate systems, G53 and
\* a rewritten G54.
TargetLines ==
  { Block(<<G(0), W("X", U)>>),
    Block(<<G(0), W("X", -U)>>),
    Block(<<G(0), W("X", 0), W("Y", U)>>),
    Block(<<G(0), W("Y", -U)>>),
    Block(<<W("X", U)>>),
    Block(<<W("Y", U)>>),
    Block(<<G(91), G(0), W("X", U)>>),
    Block(<<G(91), W("X", -U)>>),
    Block(<<G(91)>>),
    Block(<<G(90)>>),
    Block(<<G(90), G(0), W("X", 0)>>),
    Block(<<G(53), G(0), W("X", U)>>),
    Block(<<G(53), G(0), W("X", 0), W("Y", 0)>>),
    Block(<<G(53), W("X", -U)>>),
    Block(<<G(55), G(0), W("X", 0)>>),
    Block(<<G(55), W("X", -U)>>),
    Block(<<G(55)>>),
    Block(<<G(54)>>),
    Block(<<G(54), G(0), W("X", U)>>),
    Block(<<G(1), W("X", U), W("F", U)>>),
    Block(<<G(10), W("L", 2 * U), W("P", U), W("Y", U)>>),
    Block(<<G(10), W("L", 2 * U), W("P", U), W("Y", 0)>>),
    Jog(<<G(91), W("X", U), W("F", U)>>) }
NextTarget ==
  \/ ExecuteLine(TargetLines)
  \/ ReportStatus
  \/ EepromFault(0)
SpecTarget == Init /\ [][NextTarget]_vars

AxisLetter(idx) == IF idx = X_AXIS THEN "X" ELSE "Y"
\* The offsets of the coordinate system in force for a block: those of the
\* system its G54..G59 word selects, else those of the active system.
BlockCoordSystem(l, gs, ee) ==
  IF \E c \in 54 .. 59 : HasG(l, {c * Scale})
  THEN settings_read_coord_data(ee, (CHOOSE c \in 54 .. 59 : HasG(l, {c * Scale})) - 54)
  ELSE gs.coord_system
\* The target of a block, from its words and the state it meets.
ExpectedTarget(l, gs, ee) ==
  [idx \in Axes |->
     IF ~HasLetter(l, AxisLetter(idx)) THEN gs.position[idx]
     ELSE IF HasG(l, {53 * Scale}) THEN ValueOfLetter(l, AxisLetter(idx))
     ELSE IF BlockDistance(l, gs) = DISTANCE_MODE_ABSOLUTE
     THEN ValueOfLetter(l, AxisLetter(idx)) + BlockCoordSystem(l, gs, ee)[idx]
            + gs.coord_offset[idx]
     ELSE ValueOfLetter(l, AxisLetter(idx)) + gs.position[idx]]

\* C9: for an accepted G0/G1 block, each axis with a word gets value + offset
\* of the block's coordinate system + G92 offset in G90, value + parser
\* position in G91, the value alone with G53; each axis without a word keeps
\* the parser position; that target is the new parser position and the target
\* handed to the planner.  Hence a run of accepted G91 X blocks advances the
\* parser X position, and the planner's X target, by the sum of its increments.
C9_TargetAssembly ==
  (Accepted /\ HasAxisWords(line) /\ (IsG0Block(line, pre.gs) \/ IsG1Block(line, pre.gs)))
    => /\ gc_state.position = ExpectedTarget(line, pre.gs, pre.ee)
       /\ Cardinality(MotionEventIdx) = 1
       /\ \A i \in MotionEventIdx : events[i].xyz = ExpectedTarget(line, pre.gs, pre.ee)
       /\ IsIncrementalXBlock(line, pre.gs)
            => /\ gc_state.position[X_AXIS] = g91_run.start + g91_run.sum
               /\ pl_position[X_AXIS] = g91_run.start + g91_run.sum
\* Two accepted G91 X blocks in a row have advanced X by d1 + d2,
\* from a position other than zero.
C9_Witness ==
  /\ Accepted /\ IsIncrementalXBlock(line, pre.gs)
  /\ g91_run.start # 0
  /\ g91_run.sum \in {2 * U, -2 * U}
  /\ gc_state.position[X_AXIS] = g91_run.start + g91_run.sum

\* ----------------------------------------------------------------- C11
\* C11: a jog block changes gc_state only in its position, and only when
\* jog_execute returns OK, in which case position becomes the jog target (the
\* target of its axis words, handed to jog_execute); modal groups, feed rate,
\* line number, coordinate system and G92 offset are after any jog block as
\* they were before it, and nothing else is written or called.
C11_JogChangesOnlyPosition ==
  (Done /\ line.jog)
    => /\ gc_state = [pre.gs EXCEPT !.position = gc_state.position]
       /\ eeprom = pre.ee /\ sys = pre.sy
       /\ \A i \in 1 .. Len(events) : events[i].e = "jog_execute"
       /\ status # "OK" => gc_state.position = pre.gs.position
       /\ status = "OK"
            => /\ Len(events) = 1
               /\ events[1].status = "OK"
               /\ gc_state.position = events[1].xyz
               /\ HasAxisWords(line)
                    => gc_state.position = ExpectedTarget(line, pre.gs, pre.ee)
\* An accepted jog written with G20, G91, N and F has moved X and nothing else.
C11_Witness ==
  /\ Accepted /\ line.jog
  /\ HasG(line, {20 * Scale}) /\ HasG(line, {91 * Scale}) /\ HasLetter(line, "N")
  /\ pre.gs.modal.distance = DISTANCE_MODE_ABSOLUTE
  /\ pre.gs.feed_rate # ValueOfLetter(line, "F")
  /\ gc_state.position[X_AXIS] = pre.gs.position[X_AXIS] + U

\* ----------------------------------------------------------------- C12
\* What the operator does between lines: `$C` puts an idle machine in check
\* mode; the override commands of the realtime channel move the feed and
\* rapid overrides away from their defaults.
SystemCommand ==
  /\ pc = "idle"
  /\ \/ /\ sys.state = STATE_IDLE
        /\ sys' = [sys EXCEPT !.state = STATE_CHECK_MODE]
     \/ /\ sys.f_override = DEFAULT_FEED_OVERRIDE
        /\ sys' = [sys EXCEPT !.f_override = DEFAULT_FEED_OVERRIDE + 10,
                              !.r_override = DEFAULT_RAPID_OVERRIDE \div 2]
  /\ pre' = [pre EXCEPT !.sy = sys']
  /\ UNCHANGED <<gc_state, eeprom, pl_position, pc, line, status, events, g91_run>>

\* Program flow words, alone and with motions, under modes other than the
\* defaults.
ProgramFlowLines ==
  { Block(<<M(0)>>),
    Block(<<M(1)>>),
    Block(<<M(2)>>),
    Block(<<M(30)>>),
    Block(<<G(0), W("X", 0), M(0)>>),
    Block(<<G(0), W("X", U), M(1)>>),
    Block(<<G(1), W("X", U), W("F", U), M(2)>>),
    Block(<<G(91), G(93), M(30)>>),
    Block(<<G(20), W("F", 2 * U), M(2)>>),
    Block(<<G(55)>>),
    Block(<<G(55), G(0), W("X", 0), M(30)>>),
    Block(<<G(91)>>),
    Block(<<G(93)>>),
    Block(<<G(0), W("X", -U)>>),
    Block(<<G(10), W("L", 2 * U), W("P", U), W("X", 0)>>),
    Block(<<M(30), W("X", U), G(55), W("P", U), G(4)>>),
    Block(<<M(2), W("X", 0), W("P", U), W("L", 2 * U), G(10)>>) }
NextFlow ==
  \/ ExecuteLine(ProgramFlowLines)
  \/ ReportStatus
  \/ EepromFault(0)
  \/ SystemCommand
SpecFlow == Init /\ [][NextFlow]_vars

\* C12: after an accepted block containing M2 or M30, whatever the modes
\* before and whatever else is in the block, the planner has been
\* synchronized and gc_state has motion mode G1, distance mode G90, feed mode
\* G94, coordinate system G54 with its offsets as the settings store holds
\* them, program flow running, and both overrides at their defaults; units,
\* feed rate value and position are those the block itself leaves.
C12_ProgramEndResets ==
  (Accepted /\ HasM(line, {2 * Scale, 30 * Scale}))
    => /\ Called("protocol_buffer_synchronize")
       /\ gc_state.modal.motion = MOTION_MODE_LINEAR
       /\ gc_state.modal.distance = DISTANCE_MODE_ABSOLUTE
       /\ gc_state.modal.feed_rate = FEED_RATE_MODE_UNITS_PER_MIN
       /\ gc_state.modal.coord_select = 0
       /\ gc_state.coord_system = settings_read_coord_data(eeprom, 0)
       /\ gc_state.modal.program_flow = PROGRAM_FLOW_RUNNING
       /\ sys.f_override = DEFAULT_FEED_OVERRIDE
       /\ sys.r_override = DEFAULT_RAPID_OVERRIDE
       /\ gc_state.modal.units = IF HasG(line, {20 * Scale}) THEN UNITS_MODE_INCHES
                                 ELSE IF HasG(line, {21 * Scale}) THEN UNITS_MODE_MM
                                 ELSE pre.gs.modal.units
       /\ gc_state.feed_rate = EffectiveFeed(line, pre.gs)
       /\ gc_state.position = IF HasAxisWords(line)
                              THEN ExpectedTarget(line, pre.gs, pre.ee)
                              ELSE pre.gs.position

\* ----------------------------------------------------------------- C13
\* C13: an accepted block containing M0 first hands its own motion to the
\* planner, then calls protocol_buffer_synchronize, and only then raises the
\* feed hold and runs the realtime executor; in check mode it stops after
\* the synchronization.  M1 causes neither: a block does what it does
\* without its M1 word, and under running program flow an accepted block
\* whose only program flow word is M1 makes none of these calls.  Program
\* flow is running again when the call returns.
C13_PauseAfterOwnMotion ==
  /\ (Accepted /\ HasM(line, {0}))
       => LET n == Len(events)
              k == IF pre.sy.state # STATE_CHECK_MODE THEN n - 2 ELSE n
          IN /\ k >= 1
             /\ events[k].e = "protocol_buffer_synchronize"
             /\ \A i \in MotionEventIdx : i < k
             /\ (HasAxisWords(line) /\ HasG(line, G123)) => MotionEventIdx # {}
             /\ \A i \in 1 .. (k - 1) : events[i].e \notin SuspendingCalls
             /\ pre.sy.state # STATE_CHECK_MODE
                  => /\ events[n - 1].e = "system_set_exec_state_flag"
                     /\ events[n].e = "protocol_execute_realtime"
             /\ pre.sy.state = STATE_CHECK_MODE
                  => ~Called("system_set_exec_state_flag")
             /\ gc_state.modal.program_flow = PROGRAM_FLOW_RUNNING
  /\ (Done /\ ~line.jog /\ HasM(line, {Scale}))
       => /\ \E ub \in UBFor(pre.gs, pre.ee, line) :
               LET WithoutM1 == [line EXCEPT !.words =
                                  SelectSeq(line.words, LAMBDA w : ~(w.l = "M" /\ w.v = Scale))]
                   o == gc_execute_line(pre.gs, pre.ee, pre.sy, WithoutM1, "OK", ub)
               IN /\ status = o.status /\ events = o.events
                  /\ gc_state = o.gs /\ eeprom = o.ee /\ sys = o.sy
          /\ (Accepted /\ pre.gs.modal.program_flow = PROGRAM_FLOW_RUNNING
                /\ ~HasM(line, {0, 2 * Scale, 30 * Scale}))
               => /\ ~Called("protocol_buffer_synchronize")
                  /\ ~Called("system_set_exec_state_flag")
                  /\ ~Called("protocol_execute_realtime")
          /\ Accepted => gc_state.modal.program_flow = PROGRAM_FLOW_RUNNING

\* An accepted G0 X0 M0 outside check mode: a motion, then the
\* synchronization, then the hold.
C13_Witness ==
  /\ Accepted /\ HasM(line, {0}) /\ MotionEventIdx # {}
  /\ pre.sy.state # STATE_CHECK_MODE
  /\ Called("protocol_execute_realtime")

\* ----------------------------------------------------------------- C14
\* G10 blocks: L2 and L20, P0 and up, with and without their P, L and axis
\* words, and the motions and selections that change what they act on.
G10Lines ==
  { Block(<<G(10), W("L", 2 * U), W("P", U), W("X", U)>>),
    Block(<<G(10), W("L", 2 * U), W("P", 2 * U), W("Y", -U)>>),
    Block(<<G(10), W("L", 20 * U), W("P", U), W("X", U)>>),
    Block(<<G(10), W("L", 20 * U), W("P", 0), W("X", 0), W("Y", U)>>),
    Block(<<G(55), G(10), W("L", 2 * U), W("P", 0), W("X", 0)>>),
    Block(<<G(10), W("L", 2 * U), W("X", U)>>),
    Block(<<G(10), W("L", 20 * U), W("Y", 0)>>),
    Block(<<G(10), W("P", U), W("X", U)>>),
    Block(<<G(10), W("X", U)>>),
    Block(<<G(10), W("L", 2 * U), W("P", U)>>),
    Block(<<G(10), W("L", 2 * U)>>),
    Block(<<G(10), W("L", 2 * U), W("P", 7 * U), W("X", U)>>),
    Block(<<G(10), W("L", 3 * U), W("P", U), W("X", U)>>),
    Block(<<G(10), W("L", 276 * U), W("P", U), W("X", U)>>),
    Block(<<G(10), W("L", 258 * U), W("P", 2 * U), W("X", U)>>),
    Block(<<G(10), W("L", 2 * U), W("P", 257 * U), W("X", U)>>),
    Block(<<G(10), W("L", 200 * U), W("P", 100 * U), W("X", U)>>),
    Block(<<G(10), W("L", 2 * U), W("P", U), W("R", U), W("X", U)>>),
    Block(<<G(0), W("X", U)>>),
    Block(<<G(0), W("X", 0), W("Y", -U)>>),
    Block(<<G(54)>>),
    Block(<<G(55)>>),
    Block(<<M(2)>>) }
NextG10 ==
  \/ ExecuteLine(G10Lines)
  \/ ReportStatus
  \/ EepromFault(0)
SpecG10 == Init /\ [][NextG10]_vars

\* C14: G10 is accepted only if the block has a P word and at least one axis
\* word.  Without a P word, L2 or L20 given or not, the status is
\* GCODE_VALUE_WORD_MISSING; without axis words it is GCODE_NO_AXIS_WORDS; in
\* either case no coordinate system is written.  (Stated for G10 blocks with
\* nothing else in them but L2 or L20, P, axis words and G54 or G55.)
C14_G10NeedsPAndAxisWords ==
  (/\ Done /\ ~line.jog /\ HasG(line, {10 * Scale})
   /\ \A w \in WordsOf(line) :
        \/ w.l = "G" /\ w.v \in {10 * Scale, 54 * Scale, 55 * Scale}
        \/ w.l = "L" /\ w.v \in {2 * U, 20 * U}
        \/ w.l \in {"P", "X", "Y"}
   /\ ~(HasLetter(line, "P") /\ HasAxisWords(line)))
    => /\ ~Accepted
       /\ eeprom = pre.ee
       /\ ~Called("settings_write_coord_data")
       /\ HasAxisWords(line) => status = "GCODE_VALUE_WORD_MISSING"
       /\ HasLetter(line, "P") => status = "GCODE_NO_AXIS_WORDS"
       /\ status \in {"GCODE_VALUE_WORD_MISSING", "GCODE_NO_AXIS_WORDS"}

\* ----------------------------------------------------------------- C15
\* The coordinate system a G10 block names: P0 the system active for the
\* block, Pn the system n - 1.
G10System(l, gs) ==
  LET p == ValueOfLetter(l, "P") \div Scale
      active == IF \E c \in 54 .. 59 : HasG(l, {c * Scale})
                THEN (CHOOSE c \in 54 .. 59 : HasG(l, {c * Scale})) - 54
                ELSE gs.modal.coord_select
  IN IF p = 0 THEN active ELSE p - 1

\* C15: an accepted G10 block writes exactly one coordinate system, the one
\* its P word (0 to N_COORDINATE_SYSTEM) names.  For each axis with a word, L2 stores the programmed
\* value and L20 stores position minus G92 offset minus the programmed
\* value; an axis without a word keeps its stored value.  No motion is
\* made and the position is unchanged.
C15_G10WritesOneSystem ==
  (Accepted /\ ~line.jog /\ HasG(line, {10 * Scale}))
    => /\ Cardinality(EventsNamed({"settings_write_coord_data"})) = 1
       /\ \E cs \in DOMAIN eeprom.coord :
            /\ (HasLetter(line, "P")
                  /\ ValueOfLetter(line, "P") \div Scale <= N_COORDINATE_SYSTEM)
                 => cs = G10System(line, pre.gs)
            /\ \A i \in EventsNamed({"settings_write_coord_data"}) : events[i].idx = cs
            /\ \A i \in DOMAIN eeprom.coord \ {cs} : eeprom.coord[i] = pre.ee.coord[i]
            /\ \A idx \in Axes :
                 ValueOfLetter(line, "L") \in {2 * U, 20 * U} =>
                 eeprom.coord[cs][idx] =
                   IF ~HasLetter(line, AxisLetter(idx)) THEN pre.ee.coord[cs][idx]
                   ELSE IF ValueOfLetter(line, "L") = 2 * U
                   THEN ValueOfLetter(line, AxisLetter(idx))
                   ELSE pre.gs.position[idx] - pre.gs.coord_offset[idx]
                          - ValueOfLetter(line, AxisLetter(idx))
       /\ MotionEventIdx = {}
       /\ gc_state.position = pre.gs.position

\* G10 L20 P1 X1 away from the origin with G55 active: G54 is written, one
\* axis changes to position minus value, the other keeps its stored value.
C15_Witness ==
  /\ Accepted /\ HasG(line, {10 * Scale})
  /\ ValueOfLetter(line, "L") = 20 * U
  /\ HasLetter(line, "P") /\ G10System(line, pre.gs) # pre.gs.modal.coord_select
  /\ pre.gs.position[X_AXIS] # 0
  /\ eeprom.coord[0][X_AXIS] # pre.ee.coord[0][X_AXIS]
  /\ ~HasLetter(line, "Y")

\* ----------------------------------------------------------------- C16
\* Arc blocks in offset and in radius mode, and the moves between them.
ArcLines ==
  { Block(<<G(2), W("X", 10 * U), W("Y", 0), W("I", 5 * U), W("J", 10), W("F", 100 * U)>>),
    Block(<<G(2), W("X", 10 * U), W("Y", 0), W("I", 5 * U), W("J", 0), W("F", 100 * U)>>),
    Block(<<G(2), W("X", 0), W("Y", 40), W("I", 10 * U), W("J", 0), W("F", U)>>),
    Block(<<G(2), W("X", U), W("Y", 7), W("I", 50), W("J", 0), W("F", U)>>),
    Block(<<G(2), W("X", U), W("Y", 0), W("I", U), W("J", 0), W("F", U)>>),
    Block(<<G(3), W("X", U), W("Y", U), W("I", U), W("F", U)>>),
    Block(<<G(2), W("X", U), W("Y", 0), W("R", U), W("F", U)>>),
    Block(<<G(2), W("X", U), W("Y", 0), W("R", -U), W("F", U)>>),
    Block(<<G(3), W("X", U), W("Y", 0), W("R", -U), W("F", U)>>),
    Block(<<G(3), W("X", U), W("Y", 0), W("R", 40), W("F", U)>>),
    Block(<<G(2), W("X", 0), W("Y", 0), W("R", U), W("F", U)>>),
    Block(<<G(2), W("X", U), W("Y", 0), W("R", 50), W("F", U)>>),
    Block(<<G(0), W("X", 0), W("Y", 0)>>),
    Block(<<G(0), W("X", 0), W("Y", U)>>),
    Block(<<G(2), W("X", 0), W("Y", U), W("F", U)>>),
    Block(<<G(3), W("X", U), W("Y", 0), W("F", U)>>),
    Block(<<M(2)>>) }
NextArc ==
  \/ ExecuteLineWithin(ArcLines, MaxArcPos)
  \/ ReportStatus
  \/ EepromFault(0)
SpecArc == Init /\ [][NextArc]_vars

\* The value of a word of a line, 0 when the line has none.
WordOr0(l, c) == IF HasLetter(l, c) THEN ValueOfLetter(l, c) ELSE 0

\* C16: a G2/G3 block in offset mode, with delta the difference between the
\* distance centre-start and the distance centre-target, is accepted only if
\* delta <= 0.005 and delta <= 0.1% of the start radius; every block
\* exceeding either bound is rejected with GCODE_INVALID_TARGET.
C16_OffsetArcTolerance ==
  (Done /\ ~line.jog /\ HasG(line, {2 * Scale, 3 * Scale}) /\ ~HasLetter(line, "R"))
    => LET t == ExpectedTarget(line, pre.gs, pre.ee)
           \* squared distances from the centre start + (I, J) to target and start
           t2 == Sq(t[X_AXIS] - pre.gs.position[X_AXIS] - WordOr0(line, "I"))
                   + Sq(t[Y_AXIS] - pre.gs.position[Y_AXIS] - WordOr0(line, "J"))
           r2 == Sq(WordOr0(line, "I")) + Sq(WordOr0(line, "J"))
           outside == ArcDeltaAbove005(t2, r2) \/ ArcDeltaAbovePermille(t2, r2)
       IN /\ Accepted => ~outside
          /\ outside => status = "GCODE_INVALID_TARGET"

\* ----------------------------------------------------------------- C17
\* C17: from position (0,0) with zero offsets in force, the line
\* G2X10Y0I5J0.1F100 is rejected with GCODE_INVALID_TARGET and the line
\* G2X10Y0I5J0F100 is accepted.
C17_ArcExample ==
  (/\ Done
   /\ pre.gs.position = ZeroVec
   /\ pre.gs.coord_system = ZeroVec /\ pre.gs.coord_offset = ZeroVec
   /\ pre.gs.modal.distance = DISTANCE_MODE_ABSOLUTE)
    => /\ line = Block(<<G(2), W("X", 10 * U), W("Y", 0), W("I", 5 * U), W("J", 10),
                         W("F", 100 * U)>>)
            => status = "GCODE_INVALID_TARGET"
       /\ line = Block(<<G(2), W("X", 10 * U), W("Y", 0), W("I", 5 * U), W("J", 0),
                         W("F", 100 * U)>>)
            => status = "OK"

\* ----------------------------------------------------------------- C18
\* C18: a G2/G3 block in radius mode, with chord (x, y) from the position to
\* the target, is rejected with GCODE_INVALID_TARGET when the target equals
\* the position, rejected with GCODE_ARC_RADIUS_ERROR when 4*R*R - d*d < 0,
\* and otherwise accepted; a negative R is accepted and puts the centre on
\* the other side of the chord, and the radius handed to mc_arc is |R|.
C18_RadiusArc ==
  (Done /\ ~line.jog /\ HasG(line, {2 * Scale, 3 * Scale}) /\ HasLetter(line, "R"))
    => LET t == ExpectedTarget(line, pre.gs, pre.ee)
           x == t[X_AXIS] - pre.gs.position[X_AXIS]
           y == t[Y_AXIS] - pre.gs.position[Y_AXIS]
           R == ValueOfLetter(line, "R")
           h2 == 4 * Sq(R) - Sq(x) - Sq(y)
           \* the side of the chord the centre is on: -1 right, 1 left
           side == (IF HasG(line, {2 * Scale}) THEN -1 ELSE 1) * (IF R < 0 THEN -1 ELSE 1)
       IN /\ t = pre.gs.position => status = "GCODE_INVALID_TARGET"
          /\ (t # pre.gs.position /\ h2 < 0) => status = "GCODE_ARC_RADIUS_ERROR"
          /\ (t # pre.gs.position /\ h2 >= 0)
               => /\ status = "OK"
                  /\ Cardinality(EventsNamed({"mc_arc"})) = 1
                  /\ \A i \in EventsNamed({"mc_arc"}) :
                       /\ events[i].radius = Abs(R)
                       /\ events[i].xyz = t
                       /\ side * (x * events[i].offset[Y_AXIS] - y * events[i].offset[X_AXIS]) >= 0
                       /\ h2 > 0 => events[i].offset[Y_AXIS] * x # events[i].offset[X_AXIS] * y

\* ----------------------------------------------------------------- C19
\* Blocks with one of G10, G28, G30, G92 and one of G0, G1, G2, G3, G38.x, in
\* both orders: alone, after G91, before axis and feed words, and behind
\* words that fail first.
ConflictLines ==
  LET nm == {G(10), G(28), G(30), G(92)}
      mo == AxisCommandWords \ nm
      pairs == {<<a, b>> : a \in nm, b \in mo} \cup {<<b, a>> : a \in nm, b \in mo}
  IN { Block(pfx \o pair \o sfx) :
         pfx \in {<<>>, <<G(91)>>},
         sfx \in {<<>>, <<W("X", U), W("F", U)>>},
         pair \in pairs }
     \cup { Block(<<G(4), G(10), G(0)>>),
            Block(<<G(0), G(1), G(10)>>),
            Block(<<W("X", U), W("X", 0), G(92), G(1)>>),
            Block(<<Gx(28, 10), G(0), W("X", U)>>) }

\* Blocks with value words that nothing in the block consumes, and blocks
\* whose value words are all consumed.
UnusedWordLines ==
  { Block(<<G(0), W("X", U), W("R", U)>>),
    Block(<<W("R", U)>>),
    Block(<<G(1), W("X", U), W("I", U), W("F", U)>>),
    Block(<<W("X", 0), W("J", U)>>),
    Block(<<G(2), W("X", U), W("Y", 0), W("R", U), W("I", U), W("F", U)>>),
    Block(<<G(2), W("X", U), W("Y", 0), W("R", U), W("F", U)>>),
    Block(<<G(3), W("X", U), W("Y", U), W("I", U), W("F", U)>>),
    Block(<<G(3), W("X", U), W("Y", U), W("I", U), W("L", 2 * U), W("F", U)>>),
    Block(<<W("X", U), W("R", U)>>),
    Block(<<G(0), W("X", U), W("L", 2 * U)>>),
    Block(<<G(0), W("X", U), W("P", U)>>),
    Block(<<W("L", 2 * U)>>),
    Block(<<W("P", U)>>),
    Block(<<G(4), W("P", U)>>),
    Block(<<G(4), W("P", U), W("X", 0)>>),
    Block(<<G(4), W("P", U), W("L", U)>>),
    Block(<<G(4), W("P", U), W("I", U)>>),
    Block(<<G(10), W("L", 2 * U), W("P", U), W("X", 0)>>),
    Block(<<G(10), W("L", 2 * U), W("P", U), W("X", 0), W("I", U)>>),
    Block(<<G(10), W("L", 2 * U), W("P", U), W("X", 0), W("R", U)>>),
    Block(<<W("N", 5 * U), W("F", U)>>),
    Block(<<W("N", U), G(0), W("X", U)>>),
    Block(<<W("X", U)>>),
    Block(<<G(80), W("X", U)>>),
    Block(<<G(80), W("F", U), W("P", U)>>),
    Block(<<G(0), W("X", 0), W("Y", 0)>>),
    Jog(<<W("X", U), W("F", U), W("I", U)>>),
    Jog(<<W("X", 0), W("F", U), W("N", U)>>),
    Block(<<M(2)>>),
    Block(<<G(80)>>),
    Block(<<G(28), W("X", 0)>>),
    Block(<<G(30), W("X", 0)>>),
    Block(<<G(92), W("X", 0)>>),
    Block(<<G(80), G(92), W("X", 0)>>),
    Block(<<W("F", U)>>),
    Block(<<G(92), W("X", U)>>),
    Block(<<G(28), W("X", U), W("Y", 0)>>),
    Block(<<Gx(30, 10), W("X", U)>>),
    Block(<<Gx(28, 10)>>),
    Block(<<Gx(92, 10)>>),
    Block(<<G(55), G(30), W("N", U)>>) }

NextWords ==
  \/ ExecuteLine(ConflictLines \cup UnusedWordLines)
  \/ ReportStatus
  \/ EepromFault(0)
SpecWords == Init /\ [][NextWords]_vars

\* C19: a block with one of G10, G28, G30, G92 and one of G0, G1, G2, G3,
\* G38.2 to G38.5 is never accepted, whichever word comes first, and changes
\* nothing; when the words before the second of the two pass the parse, the
\* status is GCODE_AXIS_COMMAND_CONFLICT.
C19_AxisCommandConflict ==
  (Done /\ HasG(line, GAxisNonModal) /\ HasG(line, GMotionWords \ {80 * Scale}))
    => LET Both(n) == LET ws == {line.words[k] : k \in 1 .. n}
                      IN /\ \E w \in ws : w.l = "G" /\ w.v \in GAxisNonModal
                         /\ \E w \in ws : w.l = "G" /\ w.v \in GMotionWords \ {80 * Scale}
           j == CHOOSE n \in 1 .. Len(line.words) :
                  Both(n) /\ \A m \in 1 .. (n - 1) : ~Both(m)
           before == ImportWords(BlockInit(pre.gs, line), SubSeq(line.words, 1, j - 1), 1)
       IN /\ status # "OK"
          /\ gc_state = pre.gs /\ eeprom = pre.ee /\ sys = pre.sy
          /\ events = <<>>
          /\ before.status = "OK" => status = "GCODE_AXIS_COMMAND_CONFLICT"

\* G38.2 G10: a motion command first, the non-modal axis command second.
C19_Witness ==
  /\ Rejected /\ status = "GCODE_AXIS_COMMAND_CONFLICT"
  /\ Len(line.words) >= 2
  /\ line.words[1] = Gx(38, 20) /\ line.words[2] = G(10)

\* ----------------------------------------------------------------- C20
\* C20: a block that carries a value word no command in it consumes (R, I or
\* J without an arc; I or J together with R in an arc; L without G10; P
\* without G4 or G10) is never accepted, and is rejected with
\* GCODE_UNUSED_WORDS when it passes all the other checks, with the status
\* of the failing check otherwise.  N, F and the axis words are always
\* consumed: a block with no such stray word is never rejected with
\* GCODE_UNUSED_WORDS.
C20_UnusedWords ==
  Done
    => LET arc == /\ ~line.jog
                  /\ \/ HasG(line, {2 * Scale, 3 * Scale})
                     \/ /\ ~HasG(line, GMotionWords) /\ ~HasG(line, GAxisNonModal)
                        /\ HasAxisWords(line)
                        /\ pre.gs.modal.motion \in {MOTION_MODE_CW_ARC, MOTION_MODE_CCW_ARC}
           stray == {c \in {"R", "I", "J", "L", "P"} :
                       /\ HasLetter(line, c)
                       /\ CASE c = "R" -> ~arc
                            [] c \in {"I", "J"} -> ~arc \/ HasLetter(line, "R")
                            [] c = "L" -> ~HasG(line, {10 * Scale})
                            [] c = "P" -> ~HasG(line, {4 * Scale, 10 * Scale})}
       IN /\ stray # {}
               => /\ status # "OK"
                  /\ gc_state = pre.gs /\ eeprom = pre.ee /\ events = <<>>
                  /\ \E ub \in UBFor(pre.gs, pre.ee, line) :
                       LET others == CheckMotion(CheckedBeforeMotion(pre.gs, pre.ee, line),
                                                 pre.gs, ub).status
                       IN status = IF others = "OK" THEN "GCODE_UNUSED_WORDS" ELSE others
          /\ stray = {} => status # "GCODE_UNUSED_WORDS"

\* G4 P1 L1: the dwell consumes P, nothing consumes L.
C20_Witness ==
  /\ Rejected /\ status = "GCODE_UNUSED_WORDS"
  /\ HasG(line, {4 * Scale}) /\ HasLetter(line, "P") /\ HasLetter(line, "L")

\* ----------------------------------------------------------------- C21
\* Single command words: every code of the parser with and without a
\* decimal part.
CodeLines ==
  LET gcodes == {0, 1, 2, 3, 4, 10, 17, 20, 21, 28, 30, 38, 40, 53, 54, 55, 56, 57, 58, 59,
                 61, 80, 90, 91, 92, 93, 94}
      mcodes == {0, 1, 2, 30}
      decimals == {10, 20, 50}
  IN {Block(<<Gx(c, m)>>) : c \in gcodes, m \in decimals}
       \cup {Block(<<W("M", c * Scale + m)>>) : c \in mcodes, m \in decimals}
       \cup {Block(<<Gx(38, 10)>>), Block(<<Gx(38, 30), W("X", U), W("F", U)>>),
             Block(<<G(1), W("X", U), W("F", U), Gx(54, 10)>>),
             Block(<<Gx(91, 10), G(0), W("X", 0)>>),
             Jog(<<Gx(90, 10), W("X", U), W("F", U)>>),
             Block(<<G(91)>>), Block(<<G(0), W("X", U)>>), Block(<<M(2)>>)}
       \cup {Block(<<G(c)>>) : c \in {18, 19, 41, 43, 49, 64, 81, 95, 98}}
       \cup {Block(<<M(c)>>) : c \in {3, 4, 5, 6, 7, 8, 9}}
       \cup {Block(<<W(l, U)>>) : l \in {"A", "K", "Q", "S", "T", "Z"}}
       \cup {Block(<<G(1), W("X", U), W("F", U), w>>) :
                w \in {G(40), G(18), G(43), G(64), M(3), M(8), W("S", U), W("Z", U)}}
       \cup {Block(<<w, G(1), W("X", U), W("F", U)>>) : w \in {G(40), G(18), M(3), W("T", U)}}
       \cup {Jog(<<w>> \o sfx) :
                w \in {G(0), G(1), G(2), G(3), G(4), G(10), G(20), G(21), G(28), Gx(28, 10),
                       G(30), Gx(38, 20), G(40), G(53), G(54), G(55), G(61), G(80), G(90),
                       G(91), Gx(91, 10), G(92), Gx(92, 10), G(93), G(94),
                       M(0), M(1), M(2), M(30), W("N", U)},
                sfx \in {<<W("X", U), W("F", U)>>, <<W("X", U)>>}}
       \cup {Jog(<<G(4), W("P", U), W("X", U), W("F", U)>>),
             Jog(<<G(10), W("L", 2 * U), W("P", U), W("X", U), W("F", U)>>),
             Jog(<<G(91), G(21), G(53), W("X", -U), W("F", 2 * U)>>),
             Jog(<<W("X", U), W("F", 0)>>)}
NextCodes ==
  \/ ExecuteLine(CodeLines)
  \/ ReportStatus
  \/ EepromFault(0)
SpecCodes == Init /\ [][NextCodes]_vars

\* C21 (as stated): a G or M command word with a non-zero mantissa is
\* rejected with GCODE_COMMAND_VALUE_NOT_INTEGER unless it is one of G38.2 to
\* G38.5, G91.1, G28.1, G30.1, G92.1.
C21_DecimalIsNotInteger ==
  (/\ Done /\ Len(line.words) >= 1
   /\ line.words[1].l \in {"G", "M"}
   /\ line.words[1].v % Scale # 0
   /\ line.words[1] \notin {Gx(38, 20), Gx(38, 30), Gx(38, 40), Gx(38, 50),
                            Gx(91, 10), Gx(28, 10), Gx(30, 10), Gx(92, 10)})
    => status = "GCODE_COMMAND_VALUE_NOT_INTEGER"

\* C21 (amended): a block with such a word is never accepted and changes
\* nothing.  When the word is the first of the block, the status is
\* GCODE_UNSUPPORTED_COMMAND for the codes whose case tests the mantissa
\* itself (G28, G30, G38, G61, G90, G91, G92) and for G17, which has no case,
\* and GCODE_COMMAND_VALUE_NOT_INTEGER for every other G code and every M
\* code.
C21_DecimalRejected ==
  LET Listed(w) == w \in {Gx(38, 20), Gx(38, 30), Gx(38, 40), Gx(38, 50),
                          Gx(91, 10), Gx(28, 10), Gx(30, 10), Gx(92, 10)}
      Decimal(w) == w.l \in {"G", "M"} /\ w.v % Scale # 0 /\ ~Listed(w)
  IN (Done /\ \E w \in WordsOf(line) : Decimal(w))
       => /\ status # "OK"
          /\ gc_state = pre.gs /\ eeprom = pre.ee /\ sys = pre.sy /\ events = <<>>
          /\ Decimal(line.words[1])
               => status = IF /\ line.words[1].l = "G"
                              /\ line.words[1].v \div Scale \in {17, 28, 30, 38, 61, 90, 91, 92}
                           THEN "GCODE_UNSUPPORTED_COMMAND"
                           ELSE "GCODE_COMMAND_VALUE_NOT_INTEGER"

\* G54.1 alone.
C21_Witness ==
  /\ Rejected /\ line.words = <<Gx(54, 10)>>
  /\ status = "GCODE_COMMAND_VALUE_NOT_INTEGER"

\* ----------------------------------------------------------------- C22
\* One block for every code of the recognized list, with the words the code
\* requires.
RecognizedLines ==
  { Block(<<G(0), W("X", U)>>),
    Block(<<G(1), W("X", U), W("F", U)>>),
    Block(<<G(2), W("X", U), W("Y", 0), W("R", U), W("F", U)>>),
    Block(<<G(3), W("X", U), W("Y", U), W("I", U), W("F", U)>>),
    Block(<<G(4), W("P", U)>>),
    Block(<<G(10), W("L", 2 * U), W("P", U), W("X", 0)>>),
    Block(<<G(10), W("L", 20 * U), W("P", U), W("X", 0)>>),
    Block(<<G(17)>>),
    Block(<<G(20)>>), Block(<<G(21)>>),
    Block(<<G(28)>>), Block(<<Gx(28, 10)>>),
    Block(<<G(30)>>), Block(<<Gx(30, 10)>>),
    Block(<<Gx(38, 20), W("X", U), W("F", U)>>),
    Block(<<Gx(38, 30), W("X", U), W("F", U)>>),
    Block(<<Gx(38, 40), W("X", U), W("F", U)>>),
    Block(<<Gx(38, 50), W("X", U), W("F", U)>>),
    Block(<<G(53), G(0), W("X", U)>>),
    Block(<<G(54)>>), Block(<<G(55)>>), Block(<<G(56)>>),
    Block(<<G(57)>>), Block(<<G(58)>>), Block(<<G(59)>>),
    Block(<<G(61)>>), Block(<<G(80)>>),
    Block(<<G(90)>>), Block(<<G(91)>>),
    Block(<<G(92)>>), Block(<<Gx(92, 10)>>),
    Block(<<G(93)>>), Block(<<G(94)>>),
    Block(<<M(0)>>), Block(<<M(1)>>), Block(<<M(2)>>), Block(<<M(30)>>) }

NextRecognized == \/ ExecuteLine(RecognizedLines) \/ ReportStatus
SpecRecognized == Init /\ [][NextRecognized]_vars

\* C22: every code of the recognized list is accepted: a block made of one
\* recognized code and the words it requires, given to a parser fresh from
\* gc_init with a readable settings store, returns OK; in particular the
\* block G17 does.
C22_RecognizedAccepted ==
  (Done /\ line \in RecognizedLines /\ pre.ee.bad = {} /\ pre.gs = gc_init(pre.ee))
    => status = "OK"

C24_Deterministic ==
  Done => \E js \in JogStatusFor(line) :
            \A ub \in UBFor(pre.gs, pre.ee, line) :
              LET out == gc_execute_line(pre.gs, pre.ee, pre.sy, line, js, ub) IN
              /\ out.status = status
              /\ out.gs = gc_state
              /\ out.events = events

\* ----------------------------------------------------------------- C25
\* C25: the plane indices are assigned before use: every call of mc_arc an
\* accepted arc block makes is given axis_0 = X and axis_1 = Y.
C25_PlaneIndicesAssigned ==
  Done => \A i \in EventsNamed({"mc_arc"}) :
            events[i].axis_0 = X_AXIS /\ events[i].axis_1 = Y_AXIS

\* ----------------------------------------------------------------- C26
\* C26: an accepted block that is not a jog makes its calls in one order,
\* whatever the order of its words: the dwell, the coordinate system change,
\* the G10 write and its change flag, the motion, then the program flow
\* (synchronize, then the hold or the program end); and the block with its
\* words in any other order has the same outcome.
C26_ExecutionOrder ==
  LET Names(evs) == [i \in 1 .. Len(evs) |-> evs[i].e]
      Dwell == {<<>>, <<"mc_dwell">>}
      Select == {<<>>, <<"system_flag_wco_change">>}
      Write == {<<>>, <<"settings_write_coord_data">>,
                <<"settings_write_coord_data", "system_flag_wco_change">>}
      Motion == {<<>>, <<"mc_line">>, <<"mc_arc">>}
      Flow == {<<>>, <<"protocol_buffer_synchronize">>,
               <<"protocol_buffer_synchronize", "system_set_exec_state_flag",
                 "protocol_execute_realtime">>,
               <<"protocol_buffer_synchronize", "report_feedback_message">>,
               <<"protocol_buffer_synchronize", "system_flag_wco_change",
                 "report_feedback_message">>}
      InOrder == {a \o b \o c \o d \o e :
                    a \in Dwell, b \in Select, c \in Write, d \in Motion, e \in Flow}
      Reordered(p) == [line EXCEPT !.words = [i \in 1 .. Len(line.words) |-> line.words[p[i]]]]
  IN (Accepted /\ ~line.jog)
       => /\ Names(events) \in InOrder
          /\ \A p \in Permutations(1 .. Len(line.words)) : \A ub \in UBFor(pre.gs, pre.ee, line) :
               LET out == gc_execute_line(pre.gs, pre.ee, pre.sy, line, "OK", ub)
                   alt == gc_execute_line(pre.gs, pre.ee, pre.sy, Reordered(p), "OK", ub)
               IN alt = out
C26_Witness ==
  /\ Accepted /\ line.words = <<M(30), W("X", U), G(55), W("P", U), G(4)>>
  /\ Len(events) = 6
  /\ events[1].e = "mc_dwell" /\ events[2].e = "system_flag_wco_change"
  /\ events[3].e = "mc_line" /\ events[4].e = "protocol_buffer_synchronize"
  /\ events[6].e = "report_feedback_message"

\* ----------------------------------------------------------------- C27
\* C27 as stated: while the motion mode in force for a block is G80, committed
\* by an earlier block or given in the block itself, no block containing axis
\* words is accepted, G10, G28, G30 and G92 blocks included: it fails with
\* axis words exist unless an earlier check fails; and G80 stays in force
\* until an accepted block selects another motion mode.
C27_G80LocksAllAxisWords ==
  LET Selects == HasG(line, GMotionWords \ {80 * Scale})
      InForce == HasG(line, {80 * Scale}) \/ (pre.gs.modal.motion = MOTION_MODE_NONE /\ ~Selects)
  IN /\ (Done /\ InForce /\ HasAxisWords(line))
          => /\ status # "OK"
             /\ CheckedBeforeMotion(pre.gs, pre.ee, line).status = "OK"
                  => status = "GCODE_AXIS_WORDS_EXIST"
     /\ (Done /\ pre.gs.modal.motion = MOTION_MODE_NONE
              /\ gc_state.modal.motion # MOTION_MODE_NONE)
          => Accepted /\ Selects

\* C27: while the motion mode in force for a block that is not a jog is G80,
\* committed earlier or given in the block itself, a block containing axis
\* words is rejected and changes nothing, G10, G28, G30 and G92 blocks
\* included, with axis words exist unless an earlier check fails.  G80 stays
\* in force until an accepted block selects another motion mode or a block
\* carrying M2 or M30 runs the program end.
C27_G80LocksAxisWords ==
  LET Selects == HasG(line, GMotionWords \ {80 * Scale})
      InForce == HasG(line, {80 * Scale}) \/ (pre.gs.modal.motion = MOTION_MODE_NONE /\ ~Selects)
  IN /\ (Done /\ ~line.jog /\ InForce /\ HasAxisWords(line))
          => /\ status # "OK"
             /\ gc_state = pre.gs /\ eeprom = pre.ee /\ events = <<>>
             /\ CheckedBeforeMotion(pre.gs, pre.ee, line).status = "OK"
                  => status = "GCODE_AXIS_WORDS_EXIST"
     /\ (Done /\ pre.gs.modal.motion = MOTION_MODE_NONE
              /\ gc_state.modal.motion # MOTION_MODE_NONE)
          => (Accepted /\ Selects) \/ HasM(line, {2 * Scale, 30 * Scale})
C27_Witness ==
  /\ Rejected /\ pre.gs.modal.motion = MOTION_MODE_NONE
  /\ line.words = <<G(92), W("X", 0)>> /\ status = "GCODE_AXIS_WORDS_EXIST"

\* ----------------------------------------------------------------- C28
\* C28: a jog reaches jog_execute only if it has an F word and no G or M
\* command other than G20, G21, G90, G91 and G53, and the feed rate kept in
\* gc_state plays no part in it.  A jog whose words are read without error
\* and that has no F word is rejected with undefined feed rate; a jog with
\* any other command is rejected without reaching jog_execute.
C28_JogNeedsFAndNoCommand ==
  LET Allowed == {G(20), G(21), G(90), G(91), G(53)}
      Commands == {w \in WordsOf(line) : w.l \in {"G", "M"}}
      Imported == Check0(ImportWords(BlockInit(pre.gs, line), line.words, 1))
      NoFeed == [pre.gs EXCEPT !.feed_rate = 0]
  IN (Done /\ line.jog)
       => /\ Called("jog_execute") => (HasLetter(line, "F") /\ Commands \subseteq Allowed)
          /\ \A js \in JogStatuses :
               LET with == gc_execute_line(pre.gs, pre.ee, pre.sy, line, js, NoUB)
                   without == gc_execute_line(NoFeed, pre.ee, pre.sy, line, js, NoUB)
               IN with.status = without.status /\ with.events = without.events
          /\ (~HasLetter(line, "F") /\ Imported.status = "OK")
               => status = "GCODE_UNDEFINED_FEED_RATE"
          /\ (~HasLetter(line, "F") \/ ~(Commands \subseteq Allowed))
               => /\ status # "OK" /\ events = <<>>
                  /\ gc_state = pre.gs /\ eeprom = pre.ee
C28_Witness ==
  /\ Accepted /\ line = Jog(<<G(91), G(21), G(53), W("X", -U), W("F", 2 * U)>>)
  /\ Called("jog_execute") /\ pre.gs.feed_rate = U /\ events[1].feed = 2 * U

\* ----------------------------------------------------------------- C29
\* C29: a jog without axis words is rejected before jog_execute is called:
\* it commands no motion and leaves gc_state.position as it was.
C29_JogNeedsAxisWords ==
  (Done /\ line.jog /\ ~HasAxisWords(line))
    => /\ status # "OK"
       /\ ~Called("jog_execute")
       /\ gc_state.position = pre.gs.position

\* ----------------------------------------------------------------- C30
\* C30: a G2 or G3 block without an R word and without an I or J word is
\* rejected whatever its target, so mc_arc is never called with a zero
\* radius and zero offsets.
C30_OffsetArcNeedsOffsets ==
  /\ (Done /\ ~line.jog /\ HasG(line, {2 * Scale, 3 * Scale})
           /\ ~HasLetter(line, "R") /\ ~HasLetter(line, "I") /\ ~HasLetter(line, "J"))
       => status # "OK" /\ ~Called("mc_arc")
  /\ Done => \A i \in EventsNamed({"mc_arc"}) :
               ~(events[i].radius = 0 /\ events[i].offset = ZeroVec)

\* ----------------------------------------------------------------- C31
\* C31: the ranges of the G10 arguments hold for every value, those above
\* 255 included: a G10 block with axis words whose L value is neither 2 nor
\* 20 is rejected, as an unsupported command when its P value is in range; one
\* whose P value is greater than N_COORDINATE_SYSTEM is rejected as an
\* unsupported coordinate system; neither writes a coordinate system.
C31_G10ArgumentRanges ==
  LET IsG10 == Done /\ ~line.jog /\ HasG(line, {10 * Scale}) /\ HasAxisWords(line)
      BadL == HasLetter(line, "L") /\ ValueOfLetter(line, "L") \notin {2 * U, 20 * U}
      BadP == HasLetter(line, "P") /\ ValueOfLetter(line, "P") \div Scale > N_COORDINATE_SYSTEM
  IN /\ (IsG10 /\ BadP)
          => status = "GCODE_UNSUPPORTED_COORD_SYS"
     /\ (IsG10 /\ BadL /\ ~BadP)
          => status = "GCODE_UNSUPPORTED_COMMAND"
     /\ (IsG10 /\ (BadL \/ BadP))
          => /\ ~Called("settings_write_coord_data")
             /\ eeprom = pre.ee /\ gc_state = pre.gs

\* ----------------------------------------------------------------- C32
\* C32: positions and rates leave the parser in millimetres: an accepted
\* block executed with G20 in force hands the planner the targets and feed
\* rates that the block with its lengths and feed multiplied by 25.4 hands it
\* with G21 in force.
C32_InchesToMillimetres ==
  LET InMm(w) == IF w.l \in {"X", "Y", "I", "J", "R", "F"} THEN [w EXCEPT !.v = (@ * 254) \div 10]
                 ELSE IF w = G(20) THEN G(21) ELSE w
      Converted == [line EXCEPT !.words = [i \in 1 .. Len(line.words) |-> InMm(line.words[i])]]
      Metric == [pre.gs EXCEPT !.modal.units = UNITS_MODE_MM]
  IN (Accepted /\ ~line.jog /\ gc_state.modal.units = UNITS_MODE_INCHES /\ MotionEventIdx # {})
       => \E ub \in UBFor(pre.gs, pre.ee, line) :
            LET mm == gc_execute_line(Metric, pre.ee, pre.sy, Converted, "OK", ub)
            IN /\ Len(mm.events) = Len(events)
               /\ \A i \in MotionEventIdx :
                    mm.events[i].xyz = events[i].xyz /\ mm.events[i].feed = events[i].feed

\* ----------------------------------------------------------------- C33
\* C33: a rejection raised while the words are read (STEP 2) or checked
\* (STEP 3), and every invalid jog command, returns before anything is
\* written: gc_state, the settings store and the system state are as before
\* the call and no call to the planner, the settings or the realtime
\* executor has been made.
C33_RejectionWritesNothing ==
  (/\ Rejected
   /\ \/ status = "INVALID_JOG_COMMAND"
      \/ \E ub \in UBFor(pre.gs, pre.ee, line) :
           ParseAndCheck(pre.gs, pre.ee, line, ub).status = status)
    => /\ gc_state = pre.gs /\ eeprom = pre.ee /\ sys = pre.sy
       /\ events = <<>>
C33_Witness ==
  /\ Rejected /\ line = Block(<<G(93), G(1), W("X", U), W("N", TooBigN)>>)
  /\ status = "GCODE_INVALID_LINE_NUMBER"
  /\ pre.gs.modal.feed_rate = FEED_RATE_MODE_UNITS_PER_MIN
  /\ gc_state.modal.feed_rate = FEED_RATE_MODE_UNITS_PER_MIN

\* ----------------------------------------------------------------- C34
\* C34: a line without axis words never changes gc_state.position and never
\* hands a motion to the planner, whatever commands it contains.
C34_NoAxisWordsNoMotion ==
  (Done /\ ~HasAxisWords(line))
    => /\ gc_state.position = pre.gs.position
       /\ MotionEventIdx = {}

C36_CoordSystemCoherent ==
  (eeprom.bad = {} /\ pre.ee.bad = {})
    => /\ gc_state.coord_system = eeprom.coord[gc_state.modal.coord_select]
       /\ (Done /\ gc_state.coord_system # pre.gs.coord_system)
            => Called("system_flag_wco_change")


\* ----------------------------------------------------------------- C37
\* C37: at every return of gc_execute_line, whatever the status,
\* gc_state.modal.program_flow is running; a line without an M word never
\* synchronizes the planner for a program flow word of an earlier line, nor
\* raises the feed hold, nor performs the program end.
C37_ProgramFlowRunningAtReturn ==
  /\ gc_state.modal.program_flow = PROGRAM_FLOW_RUNNING
  /\ (Done /\ ~HasLetter(line, "M"))
       => /\ ~Called("protocol_buffer_synchronize")
          /\ ~Called("system_set_exec_state_flag")
          /\ ~Called("report_feedback_message")


\* ----------------------------------------------------------------- C38
\* gc_state as the realtime executor finds it at the calls of STEP 4 that
\* wait on it: at mc_dwell the line number, feed mode and feed rate are
\* written; at mc_line and mc_arc also the units, the coordinate system, the
\* distance mode, the G10 refresh and the motion mode, the position not yet;
\* at protocol_buffer_synchronize and at the hold of M0 also the position
\* and the program flow of the block.  A jog waits in jog_execute with
\* gc_state as it was.
ObservedAtYields(b, gs) ==
  LET g1 == CommitFeed(b, gs)
      g2 == CommitModes(b, g1)
      g3 == CommitG10(b, g2)
      gm == [g3 EXCEPT !.modal.motion = b.modal.motion]
      g4 == CommitMotion(b, g3)
      gf == [g4 EXCEPT !.modal.program_flow = b.modal.program_flow]
  IN IF b.jog THEN {gs}
     ELSE (IF DwellEvents(b) # <<>> THEN {g1} ELSE {})
          \cup (IF MotionEvents(b, g3, NoUB) # <<>> THEN {gm} ELSE {})
          \cup (IF b.modal.program_flow # PROGRAM_FLOW_RUNNING THEN {gf} ELSE {})

\* C38: at every call where gc_execute_line waits on the realtime executor
\* (dwell, mc_line, mc_arc, jog_execute, buffer synchronize, the hold of
\* M0) gc_state is either the complete state before the block or the
\* complete state the block leaves.
C38_CommitAtomicForObservers ==
  (Done /\ EventsNamed(SuspendingCalls \cup MotionCalls \cup {"jog_execute"}) # {})
    => \A ub \in UBFor(pre.gs, pre.ee, line) : \A js \in JogStatuses :
         LET out == gc_execute_line(pre.gs, pre.ee, pre.sy, line, js, ub)
         IN (out.events = events /\ out.gs = gc_state /\ out.status = status)
              => \A s \in ObservedAtYields(ParseAndCheck(pre.gs, pre.ee, line, ub), pre.gs) :
                   s = pre.gs \/ s = gc_state


\* ----------------------------------------------------------------- C39
\* gc_sync_position: the parser position set to the machine position m.
gc_sync_position(gs, m) == [gs EXCEPT !.position = m]
\* gc_state.position at the return of gc_execute_line when the realtime
\* executor has run gc_sync_position during the call ev: what STEP 4 still
\* writes after that call.  The position is written after mc_line and mc_arc
\* return, which follow the dwell, and after jog_execute returns OK; nothing
\* writes it after the buffer synchronization and the hold of M0.
PositionAfterResync(b, gs, ev, m) ==
  IF ev.e = "jog_execute"
  THEN IF ev.status = "OK" THEN b.xyz ELSE m
  ELSE IF ev.e \in {"mc_dwell"} \cup MotionCalls
  THEN CommitMotion(b, gc_sync_position(gs, m)).position
  ELSE m

\* C39: when gc_sync_position runs while gc_execute_line waits in mc_line,
\* mc_arc, jog_execute, the dwell, the buffer synchronization or the hold of
\* M0, gc_state.position at the return equals the resynced machine position,
\* unless a motion of the block is handed to the planner by that call or a
\* later one.
C39_ResyncNotLost ==
  (Done /\ EventsNamed(SuspendingCalls \cup MotionCalls \cup {"jog_execute"}) # {})
    => \A ub \in UBFor(pre.gs, pre.ee, line) : \A js \in JogStatuses :
         LET out == gc_execute_line(pre.gs, pre.ee, pre.sy, line, js, ub)
             b == ParseAndCheck(pre.gs, pre.ee, line, ub)
         IN (out.events = events /\ out.gs = gc_state /\ out.status = status)
              => \A i \in EventsNamed(SuspendingCalls \cup MotionCalls \cup {"jog_execute"}) :
                   \A m \in [Axes -> {k * Scale : k \in (0 - MaxPos) .. MaxPos}] :
                     \/ PositionAfterResync(b, pre.gs, events[i], m) = m
                     \/ \E j \in MotionEventIdx : j >= i


\* ----------------------------------------------------------------- C40
\* C40: in every reachable state each modal field of gc_state holds one
\* member of its group: the motion mode is G0, G1, G2, G3, G80 or one of
\* G38.2 to G38.5, the feed mode G93 or G94, the units G20 or G21, the
\* distance mode G90 or G91, the coordinate system one of G54 to G59; after
\* gc_init they are G0, G94, G21, G90 and G54, with feed rate 0 and position
\* 0; no accepted or rejected line leaves a value outside these sets.
C40_ModalFieldsValid ==
  /\ gc_state.modal.motion \in
       {MOTION_MODE_SEEK, MOTION_MODE_LINEAR, MOTION_MODE_CW_ARC, MOTION_MODE_CCW_ARC,
        MOTION_MODE_NONE} \cup (MOTION_MODE_PROBE_TOWARD .. (MOTION_MODE_PROBE_TOWARD + 3))
  /\ gc_state.modal.feed_rate \in {FEED_RATE_MODE_UNITS_PER_MIN, FEED_RATE_MODE_INVERSE_TIME}
  /\ gc_state.modal.units \in {UNITS_MODE_MM, UNITS_MODE_INCHES}
  /\ gc_state.modal.distance \in {DISTANCE_MODE_ABSOLUTE, DISTANCE_MODE_INCREMENTAL}
  /\ gc_state.modal.coord_select \in 0 .. (N_COORDINATE_SYSTEM - 1)
  /\ LET g == gc_init(eeprom)
     IN /\ g.modal.motion = MOTION_MODE_SEEK
        /\ g.modal.feed_rate = FEED_RATE_MODE_UNITS_PER_MIN
        /\ g.modal.units = UNITS_MODE_MM
        /\ g.modal.distance = DISTANCE_MODE_ABSOLUTE
        /\ g.modal.coord_select = 0
        /\ g.feed_rate = 0
        /\ g.position = ZeroVec
C40_Witness ==
  /\ Done
  /\ gc_state.modal.motion \in MOTION_MODE_PROBE_TOWARD .. (MOTION_MODE_PROBE_TOWARD + 3)
  /\ gc_state.modal.feed_rate = FEED_RATE_MODE_INVERSE_TIME
  /\ gc_state.modal.units = UNITS_MODE_INCHES
  /\ gc_state.modal.distance = DISTANCE_MODE_INCREMENTAL
  /\ gc_state.modal.coord_select = N_COORDINATE_SYSTEM - 1

====
